---- MODULE Spec2Model ----
(***************************************************************************)
(* Model of the ESP32-Gamepad task scheduler                               *)
(* (components/task_scheduler/src/task_scheduler.c).                       *)
(*                                                                         *)
(* The task table, the identity counter, the mutex and the scheduler-wide  *)
(* statistics are the module's static variables.  Every FreeRTOS task      *)
(* started by xTaskCreate runs task_wrapper on its slot; the esp_timer     *)
(* service task runs periodic_timer_callback for Delayed tasks.  Facade    *)
(* operations of callers outside the scheduler's own tasks hold the mutex  *)
(* for their whole body; task_wrapper and periodic_timer_callback never    *)
(* take it, so their steps interleave with everything.                     *)
(***************************************************************************)
EXTENDS Integers, Naturals, Sequences, FiniteSets, TLC

\* ---------------------------------------------------------------- bounds
MaxTasks == 2          \* slots of the table in the model (MAX_TASKS in the code)
IdBits == 2            \* width of task_id_t in the model (uint32_t in the code)
MaxCreates == 2        \* create calls that get past the free-slot check
MaxExecs == 2          \* task-function invocations in one behaviour
MaxTime == 4           \* the clock (ms) stops advancing here

\* ------------------------------------------------------- program constants
INVALID_TASK_ID == 0
\* UINT32_MAX, the all-ones word: the largest integer the checker represents
\* stands for it; no counter of the model comes near it from below.
UINT32_MAX == 2147483647
\* vTaskDelay(pdMS_TO_TICKS(10)) of a pass that is not a Periodic one
IdleDelayMs == 10

Slots == 1..MaxTasks
IdSpace == 0..(2^IdBits - 1)

TaskTypes == {"PERIODIC", "ONESHOT", "DELAYED", "CONDITIONAL"}
TaskStates == {"CREATED", "READY", "RUNNING", "SUSPENDED", "COMPLETED", "ERROR"}

\* What a completion callback (user code) may do when it is invoked: nothing
\* to the scheduler, or call task_scheduler_delete_task on the identity it
\* was handed.
CallbackActs == {"nothing", "deleteSelf"}

\* Durations (ms) a task function may take in this specification.
Durations == {1}

\* The configurations callers submit (function / callback / condition: whether
\* the pointer is set; period_ms, delay_ms, max_execution_time_ms: 0 or a
\* positive time).  The first three
\* are what CREATE_ONESHOT_TASK, CREATE_DELAYED_TASK and CREATE_PERIODIC_TASK
\* build.
OneShotAuto == [type |-> "ONESHOT", function |-> TRUE, period_ms |-> 0, delay_ms |-> 0, max_execution_time_ms |-> 0, auto_delete |-> TRUE, callback |-> FALSE, condition |-> FALSE]
DelayedAuto == [type |-> "DELAYED", function |-> TRUE, period_ms |-> 0, delay_ms |-> 0, max_execution_time_ms |-> 0, auto_delete |-> TRUE, callback |-> FALSE, condition |-> FALSE]
PeriodicCfg == [type |-> "PERIODIC", function |-> TRUE, period_ms |-> 1, delay_ms |-> 0, max_execution_time_ms |-> 0, auto_delete |-> FALSE, callback |-> FALSE, condition |-> FALSE]
OneShotKeep == [type |-> "ONESHOT", function |-> TRUE, period_ms |-> 0, delay_ms |-> 0, max_execution_time_ms |-> 0, auto_delete |-> FALSE, callback |-> TRUE, condition |-> FALSE]
DelayedKeep == [type |-> "DELAYED", function |-> TRUE, period_ms |-> 0, delay_ms |-> 0, max_execution_time_ms |-> 0, auto_delete |-> FALSE, callback |-> FALSE, condition |-> FALSE]
ConditionalCfg == [type |-> "CONDITIONAL", function |-> TRUE, period_ms |-> 0, delay_ms |-> 0, max_execution_time_ms |-> 0, auto_delete |-> FALSE, callback |-> FALSE, condition |-> TRUE]
ConditionalNoPred == [ConditionalCfg EXCEPT !.condition = FALSE]

\* A Delayed task with a delay that takes time to elapse.
LongDelay == 2
DelayedLater == [DelayedKeep EXCEPT !.delay_ms = LongDelay]

\* Tasks of every type with a budget for the time of one execution.
BudgetMs == 2
BudgetConfigs ==
    {[c EXCEPT !.max_execution_time_ms = BudgetMs] :
        c \in {PeriodicCfg, OneShotKeep, ConditionalCfg, DelayedKeep}}

\* OneShot and Delayed tasks with a completion callback, removed
\* automatically or kept.
OneShotNotifyAuto == [OneShotAuto EXCEPT !.callback = TRUE]
DelayedNotifyAuto == [DelayedAuto EXCEPT !.callback = TRUE]
DelayedNotifyKeep == [DelayedKeep EXCEPT !.callback = TRUE]
NotifyConfigs == {OneShotKeep, OneShotNotifyAuto, DelayedNotifyAuto, DelayedNotifyKeep}

\* Periodic tasks with periods of 1, 2 and 3 ms.
Periodic2 == [PeriodicCfg EXCEPT !.period_ms = 2]
Periodic3 == [PeriodicCfg EXCEPT !.period_ms = 3]
PeriodicConfigs == {PeriodicCfg, Periodic2, Periodic3}

\* Tick periods (ms) of the builds that are followed in time; the ESP-IDF
\* default is a 10 ms tick.
TickPeriods == {1, 2}

Configs == {OneShotAuto, DelayedAuto, PeriodicCfg, OneShotKeep, DelayedKeep, ConditionalCfg}

\* Configurations the interface describes as invalid: no task function, a
\* type value of TASK_TYPE_MAX or above, a Periodic task with period 0.
NoFunctionCfg == [PeriodicCfg EXCEPT !.function = FALSE]
BadTypeCfg == [PeriodicCfg EXCEPT !.type = "MAX"]
PeriodicZeroCfg == [PeriodicCfg EXCEPT !.period_ms = 0]
InvalidConfigs == {NoFunctionCfg, BadTypeCfg, PeriodicZeroCfg}
AllConfigs ==
    Configs \cup InvalidConfigs \cup PeriodicConfigs \cup BudgetConfigs
            \cup NotifyConfigs \cup {ConditionalNoPred, DelayedLater}

\* Outcomes of handing a dangling TaskHandle_t to vTaskDelete / vTaskSuspend /
\* vTaskResume: 0 = no visible effect, -1 = the firmware crashes, t in Slots =
\* the freed control block has been reused by the thread of slot t.
UB_BENIGN == 0
UB_CRASH == 0 - 1
UBOutcomes == {UB_BENIGN, UB_CRASH} \cup Slots

VARIABLES
    is_initialized,   \* static bool is_initialized
    tasks,            \* static scheduler_task_t tasks[MAX_TASKS]
    task_count,       \* static uint32_t task_count
    next_task_id,     \* static task_id_t next_task_id
    scheduler_mutex,  \* "free", "ext" (held by a facade call in progress),
                      \* "orphan" (held by a thread that no longer exists) or
                      \* "NULL" (deleted, or never created)
    scheduler_stats,  \* static scheduler_stats_t scheduler_stats
    thr,              \* per slot: the FreeRTOS task running task_wrapper on it
    ttask,            \* the esp_timer service task: idle or inside a callback
    ext,              \* the facade call an outside caller is in the middle of
    last,             \* the facade call of an outside caller that returned in
                      \* the latest step (NoCall after any other step)
    crashed,          \* the firmware has crashed on a dangling handle
    env,              \* what the callers of this behaviour do: the configurations
                      \* they submit, how many creates and invocations happen,
                      \* how many callers outside the scheduler's tasks there
                      \* are, whether the passage of time is followed (timed;
                      \* if not, a sleep of a thread ends at any moment) and
                      \* the build's tick period (ms) and whether it keeps
                      \* FreeRTOS's configASSERT checks
    snap,             \* the copy the latest successful getter call handed out
    clock,            \* esp_timer's time: now (ms), per slot the instant its
                      \* timer is due, and whether a timer with a positive
                      \* delay was stopped by suspend before it ever fired
                      \* ("suspended"), re-armed by resume after that
                      \* ("resumed"), or has fired ("fired"); in a timed
                      \* behaviour also, per slot, last_wakeup_time (wake,
                      \* ticks), the tick its thread is blocked until
                      \* (until, 0: not blocked) and start_time (start, ms)
    regs,             \* per slot: what the thread inside update_task_stats holds
                      \* in registers (the measured time, a loaded or computed word)
    hist              \* history: creates that got a slot, creates that returned
                      \* an identity and invocations so far, the invocations
                      \* of each slot's current record, how many of them
                      \* finished with a measured time above a positive
                      \* budget, how often the completion callback was called
                      \* from the slot's record since it was created, whether
                      \* an execution of a deleted task has written into its
                      \* former slot

vars == <<is_initialized, tasks, task_count, next_task_id, scheduler_mutex, scheduler_stats,
          thr, ttask, ext, last, crashed, env, snap, regs, clock, hist>>

\* memset(&task->stats, 0, ...) followed by the two assignments of create
ZeroStats ==
    [execution_count |-> 0, total_execution_time_ms |-> 0,
     avg_execution_time_ms |-> 0, max_execution_time_ms |-> 0,
     min_execution_time_ms |-> 0, missed_deadlines |-> 0, error_count |-> 0,
     current_state |-> "CREATED"]

ZeroConfig ==
    [type |-> "PERIODIC", function |-> FALSE, period_ms |-> 0, delay_ms |-> 0,
     max_execution_time_ms |-> 0, auto_delete |-> FALSE, callback |-> FALSE, condition |-> FALSE]

\* memset(&scheduler_stats, 0, sizeof(scheduler_stats))
ZeroSchedulerStats ==
    [total_tasks_created |-> 0, active_tasks |-> 0, total_executions |-> 0,
     total_execution_time_ms |-> 0, avg_execution_time_ms |-> 0, start_time |-> 0]

\* memset(tasks, 0, sizeof(tasks))
ZeroTask ==
    [id |-> 0, config |-> ZeroConfig, stats |-> ZeroStats, handle |-> FALSE,
     is_active |-> FALSE, timer |-> "NULL"]

NoThread == [pc |-> "none", suspended |-> FALSE]
TimerIdle == [pc |-> "idle", slot |-> 0, stale |-> FALSE]
ExtIdle == [pc |-> "idle", slot |-> 0]
NoCall == [op |-> "none", ret |-> "none"]
NoRegs == [execution_time |-> 0, word |-> 0]
NoSnapshot == [kind |-> "none", task |-> ZeroStats, scheduler |-> ZeroSchedulerStats]

InitState ==
    /\ is_initialized = TRUE
    /\ tasks = [s \in Slots |-> ZeroTask]
    /\ task_count = 0
    /\ next_task_id = 1
    /\ scheduler_mutex = "free"
    /\ scheduler_stats = ZeroSchedulerStats
    /\ thr = [s \in Slots |-> NoThread]
    /\ ttask = TimerIdle
    /\ ext = ExtIdle
    /\ last = [op |-> "init", ret |-> "ESP_OK"]
    /\ crashed = FALSE
    /\ snap = NoSnapshot
    /\ regs = [s \in Slots |-> NoRegs]
    /\ clock = [now |-> 0, due |-> [s \in Slots |-> 0],
                held |-> [s \in Slots |-> "no"],
                wake |-> [s \in Slots |-> 0],
                until |-> [s \in Slots |-> 0],
                start |-> [s \in Slots |-> 0]]
    /\ hist = [creates |-> 0, created |-> 0, execs |-> 0,
               runs |-> [s \in Slots |-> 0],
               over |-> [s \in Slots |-> 0],
               callbacks |-> [s \in Slots |-> 0],
               stale_write |-> FALSE]

Init ==
    /\ InitState
    /\ env = [configs |-> Configs, creates |-> MaxCreates, execs |-> MaxExecs,
              callers |-> 1,
              timed |-> FALSE, tick_ms |-> 1, asserts |-> FALSE]

\* ------------------------------------------------------------- helpers
\* uint32_t arithmetic: a decrement below zero wraps to the top of the range
U32(x) == IF x < 0 THEN UINT32_MAX + (x + 1) ELSE x

\* find_task_by_id without the is_active test: released slots are found too
find_task_by_id_any(T, id) ==
    LET hits == {i \in Slots : T[i].id = id}
    IN IF hits = {} THEN 0 ELSE CHOOSE i \in hits : \A j \in hits : i <= j

\* find_task_by_id: the first active slot holding the identity, 0 for NULL
find_task_by_id(T, id) ==
    LET hits == {i \in Slots : T[i].is_active /\ T[i].id = id}
    IN IF hits = {} THEN 0 ELSE CHOOSE i \in hits : \A j \in hits : i <= j

\* find_free_task_slot without the NULL result: a full table yields its last slot
find_free_task_slot_last(T) ==
    LET free == {i \in Slots : ~T[i].is_active}
    IN IF free = {} THEN MaxTasks ELSE CHOOSE i \in free : \A j \in free : i <= j

\* find_free_task_slot: the first slot that is not active, 0 for NULL
find_free_task_slot(T) ==
    LET free == {i \in Slots : ~T[i].is_active}
    IN IF free = {} THEN 0 ELSE CHOOSE i \in free : \A j \in free : i <= j

\* id = next_task_id++; if (next_task_id == INVALID_TASK_ID) next_task_id = 1;
NextId(n) ==
    LET m == (n + 1) % (2^IdBits)
    IN IF m = INVALID_TASK_ID THEN 1 ELSE m

\* update_task_stats, the per-task half, without the test that lowers
\* min_execution_time_ms
update_task_stats_nomin(st, execution_time) ==
    LET cnt == U32(st.execution_count + 1)
        tot == U32(st.total_execution_time_ms + execution_time)
    IN [st EXCEPT
          !.execution_count = cnt,
          !.total_execution_time_ms = tot,
          !.avg_execution_time_ms = IF cnt > 0 THEN tot \div cnt ELSE @,
          !.max_execution_time_ms = IF execution_time > @ THEN execution_time ELSE @]

\* update_task_stats, the per-task half
update_task_stats(st, execution_time) ==
    LET cnt == U32(st.execution_count + 1)
        tot == U32(st.total_execution_time_ms + execution_time)
    IN [st EXCEPT
          !.execution_count = cnt,
          !.total_execution_time_ms = tot,
          !.avg_execution_time_ms = IF cnt > 0 THEN tot \div cnt ELSE @,
          !.max_execution_time_ms = IF execution_time > @ THEN execution_time ELSE @,
          !.min_execution_time_ms = IF execution_time < @ THEN execution_time ELSE @]

\* update_task_stats, the scheduler-wide half
update_scheduler_stats(ss, execution_time) ==
    LET cnt == U32(ss.total_executions + 1)
        tot == U32(ss.total_execution_time_ms + execution_time)
    IN [ss EXCEPT
          !.total_executions = cnt,
          !.total_execution_time_ms = tot,
          !.avg_execution_time_ms = IF cnt > 0 THEN tot \div cnt ELSE @]

\* The state a facade body works on.
World ==
    [tasks |-> tasks, thr |-> thr, mutex |-> scheduler_mutex,
     task_count |-> task_count, sstats |-> scheduler_stats, crashed |-> crashed,
     is_initialized |-> is_initialized]

KillThread(TH, t) == [TH EXCEPT ![t] = NoThread]

\* A handle is dangling when the thread it named has run into vTaskDelete(NULL)
\* (or was deleted) while the record kept the handle.
Dangling(W, s) == W.tasks[s].handle /\ W.thr[s].pc = "none"

\* The outcomes the handle of slot s admits.
UBAllowed(W, s, ub) ==
    IF s # 0 /\ Dangling(W, s)
    THEN \/ ub \in {UB_BENIGN, UB_CRASH}
         \/ ub \in Slots /\ ub # s /\ W.thr[ub].pc # "none"
    ELSE ub = UB_BENIGN

\* The thread an operation on the handle of slot s acts on (0: none).
HandleTarget(W, s, ub) ==
    IF ~W.tasks[s].handle THEN 0
    ELSE IF W.thr[s].pc # "none" THEN s
    ELSE IF ub \in Slots THEN ub ELSE 0

\* task_scheduler_delete_task called by `caller` (0: a context that is not one
\* of the scheduler's threads; s: the thread of slot s).  died: the call never
\* returns because vTaskDelete removed the calling thread.
task_scheduler_delete_task(W, caller, id, ub) ==
    IF ~W.is_initialized \/ id = INVALID_TASK_ID
    THEN [w |-> W, ret |-> "ESP_ERR_INVALID_ARG", died |-> FALSE]
    ELSE IF W.mutex # "free"
    THEN [w |-> W, ret |-> "ESP_ERR_TIMEOUT", died |-> FALSE]
    ELSE LET s == find_task_by_id(W.tasks, id) IN
      IF s = 0
      THEN [w |-> W, ret |-> "ESP_ERR_NOT_FOUND", died |-> FALSE]
      ELSE
        LET T1 == [W.tasks EXCEPT ![s].timer = "NULL"]
            target == HandleTarget(W, s, ub)
        IN IF Dangling(W, s) /\ ub = UB_CRASH
           THEN [w |-> [W EXCEPT !.crashed = TRUE], ret |-> "CRASH", died |-> TRUE]
           ELSE IF target # 0 /\ target = caller
           THEN [w |-> [W EXCEPT !.tasks = T1,
                                 !.thr = KillThread(W.thr, target),
                                 !.mutex = "orphan"],
                 ret |-> "NEVER", died |-> TRUE]
           ELSE [w |-> [W EXCEPT
                          !.tasks = [T1 EXCEPT ![s].handle = FALSE,
                                               ![s].is_active = FALSE,
                                               ![s].stats.current_state = "COMPLETED"],
                          !.thr = IF target # 0 THEN KillThread(W.thr, target) ELSE @,
                          !.task_count = U32(@ - 1),
                          !.sstats.active_tasks = U32(@ - 1)],
                 ret |-> "ESP_OK", died |-> FALSE]

\* The timer service task is inside the callback of a timer whose record has
\* just been deleted: what it does from now on is a stale execution.
MarkStale(T) ==
    IF ttask.pc # "idle" /\ tasks[ttask.slot].is_active /\ ~T[ttask.slot].is_active
    THEN [ttask EXCEPT !.stale = TRUE]
    ELSE ttask

\* Write a World back to the variables.
Commit(W) ==
    /\ tasks' = W.tasks
    /\ thr' = W.thr
    /\ scheduler_mutex' = W.mutex
    /\ task_count' = W.task_count
    /\ scheduler_stats' = W.sstats
    /\ crashed' = W.crashed

Running == ~crashed

\* A caller outside the scheduler's tasks can enter a facade function: the one
\* caller is not in the middle of a call, or there is a second caller.
CallerReady == Running /\ (ext.pc = "idle" \/ env.callers > 1)

\* ------------------------------------------------ facade, outside callers
\* The failure paths of create without `task->is_active = false`
SpawnFailed_kept(rec, threaded) ==
    [rec EXCEPT !.timer = IF threaded THEN "NULL" ELSE "DANGLING"]

\* What create leaves in the slot when xTaskCreate or the timer calls fail:
\* is_active is taken back, the identity and the slot's contents are not; a
\* timer deleted after a failed start leaves its pointer behind.
SpawnFailed(rec, threaded) ==
    [rec EXCEPT !.is_active = FALSE,
                !.timer = IF threaded THEN "NULL" ELSE "DANGLING"]

\* esp_timer_start_once(task->timer, delay_ms * 1000) in slot s: the timer is
\* due delay_ms after now.  Whether the timer was held back by a suspend is
\* followed only for a positive delay.
StartOnce(c, s, delay_ms) == [c EXCEPT !.due[s] = c.now + delay_ms]

\* task_scheduler_create_task(config); spawn: whether xTaskCreate /
\* esp_timer_create / esp_timer_start_once succeed.
task_scheduler_create_task(config, spawn) ==
    /\ CallerReady
    /\ LET s == find_free_task_slot(tasks) IN
       IF \/ ~is_initialized
          \/ ~config.function
          \/ config.type \notin TaskTypes
          \/ scheduler_mutex # "free"
          \/ s = 0
       THEN /\ config \in env.configs
            /\ spawn = "ok"
            /\ last' = [op |-> "create", ret |-> "INVALID_TASK_ID"]
            /\ UNCHANGED <<tasks, task_count, next_task_id, scheduler_mutex,
                           scheduler_stats, thr, ttask, ext, crashed, clock, hist>>
       ELSE
         /\ config \in env.configs
         /\ hist.creates < env.creates
         /\ thr[s].pc = "none"
         /\ LET id == next_task_id
                rec == [id |-> id, config |-> config,
                        stats |-> [ZeroStats EXCEPT !.min_execution_time_ms = UINT32_MAX],
                        handle |-> FALSE, is_active |-> TRUE, timer |-> "NULL"]
                threaded == config.type \in {"PERIODIC", "ONESHOT", "CONDITIONAL"}
            IN
            /\ next_task_id' = NextId(next_task_id)
            /\ hist' = [hist EXCEPT !.creates = @ + 1,
                                  !.created = IF spawn = "ok" THEN @ + 1 ELSE @,
                                  !.runs[s] = 0, !.over[s] = 0,
                                  !.callbacks[s] = 0]
            /\ IF spawn = "ok"
               THEN /\ tasks' = [tasks EXCEPT ![s] =
                                   IF threaded THEN [rec EXCEPT !.handle = TRUE]
                                   ELSE [rec EXCEPT !.timer = "ARMED"]]
                    /\ thr' = IF threaded
                              THEN [thr EXCEPT ![s] = [pc |-> "start", suspended |-> FALSE]]
                              ELSE thr
                    /\ task_count' = U32(task_count + 1)
                    /\ scheduler_stats' = [scheduler_stats EXCEPT
                                             !.total_tasks_created = U32(@ + 1),
                                             !.active_tasks = U32(@ + 1)]
                    /\ clock' = IF threaded
                                THEN IF env.timed
                                     THEN [clock EXCEPT !.until[s] = 0] ELSE clock
                                ELSE [StartOnce(clock, s, config.delay_ms)
                                        EXCEPT !.held[s] = "no"]
                    /\ last' = [op |-> "create", ret |-> "ESP_OK"]
               ELSE /\ tasks' = [tasks EXCEPT ![s] = SpawnFailed(rec, threaded)]
                    /\ last' = [op |-> "create", ret |-> "INVALID_TASK_ID"]
                    /\ UNCHANGED <<thr, task_count, scheduler_stats, clock>>
            /\ UNCHANGED <<scheduler_mutex, ttask, ext, crashed>>
    /\ UNCHANGED <<is_initialized, env, snap, regs>>

\* task_scheduler_delete_task(id) from a context that is not a scheduler thread
DeleteTask(id, ub) ==
    /\ CallerReady
    /\ UBAllowed(World, find_task_by_id(tasks, id), ub)
    /\ LET r == task_scheduler_delete_task(World, 0, id, ub) IN
       /\ Commit(r.w)
       /\ last' = [op |-> "delete", ret |-> r.ret]
    /\ ttask' = MarkStale(tasks')
    /\ UNCHANGED <<next_task_id, ext, hist>>
    /\ UNCHANGED <<is_initialized, env, snap, regs, clock>>

\* task_scheduler_suspend_task(id) from a context that is not a scheduler thread;
\* vTaskSuspend takes a thread that is blocked in a sleep off the delayed
\* list, so that it is ready as soon as it is resumed.
SuspendTask(id, ub) ==
    /\ CallerReady
    /\ LET s == find_task_by_id(tasks, id) IN
       IF ~is_initialized \/ id = INVALID_TASK_ID \/ scheduler_mutex # "free" \/ s = 0
       THEN /\ last' = [op |-> "suspend",
                        ret |-> IF ~is_initialized \/ id = INVALID_TASK_ID
                                THEN "ESP_ERR_INVALID_ARG"
                                ELSE IF scheduler_mutex # "free" THEN "ESP_ERR_TIMEOUT"
                                ELSE "ESP_ERR_NOT_FOUND"]
            /\ ub = UB_BENIGN
            /\ UNCHANGED <<tasks, thr, crashed, clock>>
       ELSE /\ UBAllowed(World, s, ub)
            /\ IF Dangling(World, s) /\ ub = UB_CRASH
               THEN /\ crashed' = TRUE
                    /\ last' = [op |-> "suspend", ret |-> "CRASH"]
                    /\ UNCHANGED <<tasks, thr, clock>>
               ELSE LET target == HandleTarget(World, s, ub) IN
                    /\ thr' = IF target # 0
                              THEN [thr EXCEPT ![target].suspended = TRUE] ELSE thr
                    /\ tasks' = [tasks EXCEPT
                                   ![s].stats.current_state =
                                       IF tasks[s].handle THEN "SUSPENDED" ELSE @,
                                   ![s].timer = IF @ = "ARMED" THEN "STOPPED" ELSE @]
                    /\ clock' = LET c == IF /\ tasks[s].timer = "ARMED"
                                            /\ tasks[s].config.delay_ms > 0
                                            /\ clock.held[s] # "fired"
                                         THEN [clock EXCEPT !.held[s] = "suspended"]
                                         ELSE clock
                                IN IF env.timed /\ target # 0
                                   THEN [c EXCEPT !.until[target] = 0] ELSE c
                    /\ last' = [op |-> "suspend", ret |-> "ESP_OK"]
                    /\ UNCHANGED crashed
    /\ UNCHANGED <<task_count, next_task_id, scheduler_mutex, scheduler_stats,
                   ttask, ext, hist>>
    /\ UNCHANGED <<is_initialized, env, snap, regs>>

\* task_scheduler_resume_task(id), up to and including vTaskResume: the resumed
\* thread may run before the caller goes on.
ResumeTask(id, ub) ==
    /\ CallerReady
    /\ LET s == find_task_by_id(tasks, id) IN
       IF ~is_initialized \/ id = INVALID_TASK_ID \/ scheduler_mutex # "free" \/ s = 0
       THEN /\ last' = [op |-> "resume",
                        ret |-> IF ~is_initialized \/ id = INVALID_TASK_ID
                                THEN "ESP_ERR_INVALID_ARG"
                                ELSE IF scheduler_mutex # "free" THEN "ESP_ERR_TIMEOUT"
                                ELSE "ESP_ERR_NOT_FOUND"]
            /\ ub = UB_BENIGN
            /\ UNCHANGED <<thr, crashed, scheduler_mutex, ext>>
       ELSE /\ UBAllowed(World, s, ub)
            /\ IF Dangling(World, s) /\ ub = UB_CRASH
               THEN /\ crashed' = TRUE
                    /\ last' = [op |-> "resume", ret |-> "CRASH"]
                    /\ UNCHANGED <<thr, scheduler_mutex, ext>>
               ELSE LET target == HandleTarget(World, s, ub) IN
                    /\ thr' = IF target # 0
                              THEN [thr EXCEPT ![target].suspended = FALSE] ELSE thr
                    /\ scheduler_mutex' = "ext"
                    /\ ext' = [pc |-> "resume", slot |-> s]
                    /\ last' = NoCall
                    /\ UNCHANGED crashed
    /\ UNCHANGED <<tasks, task_count, next_task_id, scheduler_stats, ttask, hist>>
    /\ UNCHANGED <<is_initialized, env, snap, regs, clock>>

\* task_scheduler_resume_task, from the state assignment to the return
ResumeTaskReturn ==
    /\ Running
    /\ ext.pc = "resume"
    /\ LET s == ext.slot IN
       /\ tasks' = [tasks EXCEPT
                   ![s].stats.current_state = IF tasks[s].handle THEN "READY" ELSE @,
                   ![s].timer = IF @ = "STOPPED" /\ tasks[s].config.type = "DELAYED"
                                THEN "ARMED" ELSE @]
       /\ clock' = IF tasks[s].timer = "STOPPED" /\ tasks[s].config.type = "DELAYED"
                   THEN [StartOnce(clock, s, tasks[s].config.delay_ms)
                           EXCEPT !.held[s] = IF @ = "suspended" THEN "resumed" ELSE @]
                   ELSE clock
    /\ scheduler_mutex' = "free"
    /\ ext' = ExtIdle
    /\ last' = [op |-> "resume", ret |-> "ESP_OK"]
    /\ UNCHANGED <<task_count, next_task_id, scheduler_stats, thr, ttask, crashed, hist>>
    /\ UNCHANGED <<is_initialized, env, snap, regs>>

\* task_scheduler_get_task_stats(id, stats) with stats != NULL: the memcpy of
\* the record's statistics under the mutex
GetTaskStats(id) ==
    /\ CallerReady
    /\ LET s == find_task_by_id(tasks, id) IN
       IF ~is_initialized \/ id = INVALID_TASK_ID \/ scheduler_mutex # "free" \/ s = 0
       THEN /\ last' = [op |-> "getStats",
                        ret |-> IF ~is_initialized \/ id = INVALID_TASK_ID
                                THEN "ESP_ERR_INVALID_ARG"
                                ELSE IF scheduler_mutex # "free" THEN "ESP_ERR_TIMEOUT"
                                ELSE "ESP_ERR_NOT_FOUND"]
            /\ UNCHANGED snap
       ELSE /\ snap' = [NoSnapshot EXCEPT !.kind = "task", !.task = tasks[s].stats]
            /\ last' = [op |-> "getStats", ret |-> "ESP_OK"]
    /\ UNCHANGED <<tasks, task_count, next_task_id, scheduler_mutex, scheduler_stats,
                   thr, ttask, ext, crashed, is_initialized, env, regs, clock, hist>>

\* task_scheduler_get_stats without the xSemaphoreTake: the copy is made
\* whoever holds the mutex
GetSchedulerStats_nolock ==
    /\ CallerReady
    /\ snap' = [NoSnapshot EXCEPT !.kind = "scheduler", !.scheduler = scheduler_stats]
    /\ last' = [op |-> "getSchedulerStats", ret |-> "ESP_OK"]
    /\ UNCHANGED <<tasks, task_count, next_task_id, scheduler_mutex, scheduler_stats,
                   thr, ttask, ext, crashed, is_initialized, env, regs, clock, hist>>

\* task_scheduler_get_stats(stats) with stats != NULL: the memcpy of the
\* scheduler-wide statistics under the mutex
GetSchedulerStats ==
    /\ CallerReady
    /\ IF ~is_initialized \/ scheduler_mutex # "free"
       THEN /\ last' = [op |-> "getSchedulerStats",
                        ret |-> IF ~is_initialized THEN "ESP_ERR_INVALID_ARG"
                                ELSE "ESP_ERR_TIMEOUT"]
            /\ UNCHANGED snap
       ELSE /\ snap' = [NoSnapshot EXCEPT !.kind = "scheduler",
                                          !.scheduler = scheduler_stats]
            /\ last' = [op |-> "getSchedulerStats", ret |-> "ESP_OK"]
    /\ UNCHANGED <<tasks, task_count, next_task_id, scheduler_mutex, scheduler_stats,
                   thr, ttask, ext, crashed, is_initialized, env, regs, clock, hist>>

\* task_scheduler_task_exists(id): false without a look at the table when the
\* mutex is not obtained within 100 ms
task_scheduler_task_exists(id) ==
    /\ CallerReady
    /\ last' = [op |-> "exists",
                ret |-> IF ~is_initialized \/ id = INVALID_TASK_ID THEN "false"
                        ELSE IF scheduler_mutex # "free" THEN "false"
                        ELSE IF find_task_by_id(tasks, id) # 0 THEN "true"
                        ELSE "false"]
    /\ UNCHANGED <<tasks, task_count, next_task_id, scheduler_mutex, scheduler_stats,
                   thr, ttask, ext, crashed, is_initialized, env, snap, regs, clock,
                   hist>>

\* The loop of task_scheduler_stop_all_tasks from slot i on; ubf gives the
\* outcome for each slot whose handle dangles when the loop reaches it.
RECURSIVE StopLoop(_, _, _)
StopLoop(W, i, ubf) ==
    IF i > MaxTasks \/ W.crashed \/ ~W.ok THEN W
    ELSE IF ~W.tasks[i].is_active
    THEN StopLoop([W EXCEPT !.ok = (ubf[i] = UB_BENIGN)], i + 1, ubf)
    ELSE IF ~UBAllowed(W, i, ubf[i]) THEN [W EXCEPT !.ok = FALSE]
    ELSE IF Dangling(W, i) /\ ubf[i] = UB_CRASH THEN [W EXCEPT !.crashed = TRUE]
    ELSE LET target == HandleTarget(W, i, ubf[i]) IN
         StopLoop([W EXCEPT
                     !.thr = IF target # 0 THEN KillThread(@, target) ELSE @,
                     !.tasks = [@ EXCEPT ![i].timer = "NULL",
                                         ![i].handle = FALSE,
                                         ![i].is_active = FALSE,
                                         ![i].stats.current_state = "COMPLETED"]],
                  i + 1, ubf)

\* task_scheduler_stop_all_tasks() from a context that is not a scheduler thread
StopAllTasks(ubf) ==
    /\ CallerReady
    /\ IF ~is_initialized \/ scheduler_mutex # "free"
       THEN /\ ubf = [s \in Slots |-> UB_BENIGN]
            /\ last' = [op |-> "stopAll",
                        ret |-> IF ~is_initialized THEN "ESP_ERR_INVALID_STATE"
                                ELSE "ESP_ERR_TIMEOUT"]
            /\ UNCHANGED <<tasks, thr, task_count, scheduler_stats, crashed, ttask>>
       ELSE LET W == StopLoop([tasks |-> tasks, thr |-> thr, crashed |-> FALSE,
                               ok |-> TRUE], 1, ubf) IN
            /\ W.ok
            /\ IF W.crashed
               THEN /\ crashed' = TRUE
                    /\ last' = [op |-> "stopAll", ret |-> "CRASH"]
                    /\ UNCHANGED <<tasks, thr, task_count, scheduler_stats, ttask>>
               ELSE /\ tasks' = W.tasks
                    /\ thr' = W.thr
                    /\ task_count' = 0
                    /\ scheduler_stats' = [scheduler_stats EXCEPT !.active_tasks = 0]
                    /\ ttask' = MarkStale(W.tasks)
                    /\ last' = [op |-> "stopAll", ret |-> "ESP_OK"]
                    /\ UNCHANGED crashed
    /\ UNCHANGED <<next_task_id, scheduler_mutex, ext, hist>>
    /\ UNCHANGED <<is_initialized, env, snap, regs, clock>>

\* ---------------------------------------------------------- init / deinit
\* task_scheduler_init past the is_initialized test; mem: whether
\* xSemaphoreCreateMutex succeeds.  The threads and timers of an earlier
\* initialisation are not touched.
InitBody(mem) ==
    IF mem = "fail"
    THEN /\ scheduler_mutex' = "NULL"
         /\ last' = [op |-> "init", ret |-> "ESP_ERR_NO_MEM"]
         /\ UNCHANGED <<is_initialized, tasks, task_count, next_task_id,
                        scheduler_stats, hist>>
    ELSE /\ scheduler_mutex' = "free"
         /\ tasks' = [s \in Slots |-> ZeroTask]
         /\ task_count' = 0
         /\ next_task_id' = 1
         /\ scheduler_stats' = [ZeroSchedulerStats EXCEPT !.start_time = clock.now]
         /\ is_initialized' = TRUE
         /\ hist' = [hist EXCEPT !.created = 0]
         /\ last' = [op |-> "init", ret |-> "ESP_OK"]

\* task_scheduler_init without the is_initialized test
task_scheduler_init_always(mem) ==
    /\ CallerReady
    /\ InitBody(mem)
    /\ UNCHANGED <<thr, ttask, ext, crashed, env, snap, regs, clock>>

\* task_scheduler_init(config)
task_scheduler_init(mem) ==
    /\ CallerReady
    /\ IF is_initialized
       THEN /\ mem = "ok"
            /\ last' = [op |-> "init", ret |-> "ESP_OK"]
            /\ UNCHANGED <<is_initialized, tasks, task_count, next_task_id,
                           scheduler_mutex, scheduler_stats, hist>>
       ELSE InitBody(mem)
    /\ UNCHANGED <<thr, ttask, ext, crashed, env, snap, regs, clock>>

\* task_scheduler_deinit(): the return value of the stop_all call is not
\* looked at; when that call does not get the mutex nothing is stopped, and
\* the mutex is deleted and the table cleared all the same.  (A timer that is
\* left armed that way is not followed; the specification with deinit submits
\* thread-backed tasks.)
task_scheduler_deinit(ubf) ==
    /\ CallerReady
    /\ IF ~is_initialized
       THEN /\ ubf = [s \in Slots |-> UB_BENIGN]
            /\ last' = [op |-> "deinit", ret |-> "ESP_OK"]
            /\ UNCHANGED <<is_initialized, tasks, thr, task_count, scheduler_mutex,
                           scheduler_stats, crashed, ttask>>
       ELSE LET stopped == scheduler_mutex = "free"
                W0 == [tasks |-> tasks, thr |-> thr, crashed |-> FALSE, ok |-> TRUE]
                W == IF stopped THEN StopLoop(W0, 1, ubf)
                     ELSE [W0 EXCEPT !.ok = (ubf = [s \in Slots |-> UB_BENIGN])]
            IN
            /\ W.ok
            /\ IF W.crashed
               THEN /\ crashed' = TRUE
                    /\ last' = [op |-> "deinit", ret |-> "CRASH"]
                    /\ UNCHANGED <<is_initialized, tasks, thr, task_count,
                                   scheduler_mutex, scheduler_stats, ttask>>
               ELSE /\ tasks' = [s \in Slots |-> ZeroTask]
                    /\ thr' = W.thr
                    /\ task_count' = 0
                    /\ scheduler_stats' = IF stopped
                                          THEN [scheduler_stats EXCEPT !.active_tasks = 0]
                                          ELSE scheduler_stats
                    /\ scheduler_mutex' = "NULL"
                    /\ is_initialized' = FALSE
                    /\ ttask' = MarkStale(W.tasks)
                    /\ last' = [op |-> "deinit", ret |-> "ESP_OK"]
                    /\ UNCHANGED crashed
    /\ UNCHANGED <<next_task_id, ext, hist>>
    /\ UNCHANGED <<env, snap, regs, clock>>

\* ------------------------------------------------------------ task_wrapper
\* pdMS_TO_TICKS(ms): (ms * configTICK_RATE_HZ) / 1000, rounded down
pdMS_TO_TICKS(ms) == ms \div env.tick_ms

\* xTaskGetTickCount()
xTaskGetTickCount == clock.now \div env.tick_ms

\* vTaskDelayUntil(&task->last_wakeup_time, inc) of the thread of slot s: the
\* wake time is the previous wake time plus inc, it becomes the previous wake
\* time, and the thread blocks only if it lies in the future.
vTaskDelayUntil(c, s, inc) ==
    LET xTimeToWake == c.wake[s] + inc IN
    [c EXCEPT !.wake[s] = xTimeToWake,
              !.until[s] = IF xTimeToWake > xTaskGetTickCount THEN xTimeToWake ELSE 0]

\* vTaskDelay(inc) of the thread of slot s
vTaskDelay(c, s, inc) ==
    [c EXCEPT !.until[s] = IF inc > 0 THEN xTaskGetTickCount + inc ELSE 0]

\* vTaskDelayUntil is reached with an increment of 0 ticks: a build with
\* configASSERT aborts there (configASSERT(xTimeIncrement > 0)), a build
\* without it returns at once.
ZeroIncrement(config) ==
    /\ config.type = "PERIODIC"
    /\ config.period_ms > 0
    /\ pdMS_TO_TICKS(config.period_ms) = 0

\* The sleep that ends a pass of task_wrapper's loop
PassSleep(c, s) ==
    IF ~env.timed THEN c
    ELSE IF tasks[s].config.type = "PERIODIC" /\ tasks[s].config.period_ms > 0
    THEN vTaskDelayUntil(c, s, pdMS_TO_TICKS(tasks[s].config.period_ms))
    ELSE vTaskDelay(c, s, pdMS_TO_TICKS(IdleDelayMs))

\* The thread of slot s is not blocked in a sleep.
Awake(s) == ~env.timed \/ xTaskGetTickCount >= clock.until[s]

CanStep(s) == Running /\ thr[s].pc # "none" /\ ~thr[s].suspended /\ Awake(s)

\* task_wrapper up to the loop: the state becomes RUNNING
task_wrapper_start(s) ==
    /\ CanStep(s)
    /\ thr[s].pc = "start"
    /\ tasks' = [tasks EXCEPT ![s].stats.current_state = "RUNNING"]
    /\ thr' = [thr EXCEPT ![s].pc = "loop"]
    /\ clock' = IF env.timed THEN [clock EXCEPT !.wake[s] = xTaskGetTickCount]
                ELSE clock
    /\ UNCHANGED <<task_count, next_task_id, scheduler_mutex, scheduler_stats,
                   ttask, ext, crashed, hist>>
    /\ last' = NoCall
    /\ UNCHANGED <<is_initialized, env, snap, regs>>

\* should_execute of one pass; cond: what the configured predicate returns
should_execute(task, cond) ==
    CASE task.config.type = "PERIODIC" -> TRUE
      [] task.config.type = "ONESHOT" -> task.stats.execution_count = 0
      [] task.config.type = "CONDITIONAL" -> task.config.condition /\ cond
      [] OTHER -> FALSE

\* One pass of the loop up to the call of the task function; a pass that does
\* not execute sleeps and comes back to the loop head.
task_wrapper_loop(s, cond) ==
    /\ CanStep(s)
    /\ thr[s].pc = "loop"
    /\ IF ~tasks[s].is_active
       THEN /\ thr' = [thr EXCEPT ![s].pc = "exit"]
            /\ UNCHANGED <<hist, clock>>
       ELSE IF should_execute(tasks[s], cond)
       THEN /\ hist.execs < env.execs
            /\ thr' = [thr EXCEPT ![s].pc = "exec"]
            /\ hist' = [hist EXCEPT !.execs = @ + 1, !.runs[s] = @ + 1]
            /\ clock' = IF env.timed THEN [clock EXCEPT !.start[s] = clock.now]
                        ELSE clock
       ELSE /\ clock' = PassSleep(clock, s)
            /\ UNCHANGED <<thr, hist>>
    /\ UNCHANGED <<tasks, task_count, next_task_id, scheduler_mutex, scheduler_stats,
                   ttask, ext, crashed>>
    /\ last' = NoCall
    /\ UNCHANGED <<is_initialized, env, snap, regs>>

\* if (max_execution_time_ms > 0 && execution_time > max_execution_time_ms)
Exceeded(config, execution_time) ==
    config.max_execution_time_ms > 0 /\ execution_time > config.max_execution_time_ms

\* The budget test without its first conjunct
Exceeded_any(config, execution_time) ==
    execution_time > config.max_execution_time_ms

\* The task function returns after d ms (end_time - start_time): statistics,
\* the budget test, then break (OneShot) or the sleep that ends the pass.
task_wrapper_executed(s, d) ==
    /\ CanStep(s)
    /\ thr[s].pc = "exec"
    /\ env.timed => d = clock.now - clock.start[s]
    /\ crashed' = (env.timed /\ env.asserts /\ ZeroIncrement(tasks[s].config))
    /\ tasks' = [tasks EXCEPT
                   ![s].stats = [update_task_stats(@, d) EXCEPT
                                   !.missed_deadlines =
                                       IF Exceeded(tasks[s].config, d)
                                       THEN U32(@ + 1) ELSE @]]
    /\ scheduler_stats' = update_scheduler_stats(scheduler_stats, d)
    /\ thr' = [thr EXCEPT ![s].pc = IF tasks[s].config.type = "ONESHOT"
                                    THEN "exit" ELSE "loop"]
    /\ clock' = IF tasks[s].config.type = "ONESHOT" THEN clock
                ELSE PassSleep(clock, s)
    /\ hist' = IF tasks[s].config.max_execution_time_ms > 0
                  /\ d > tasks[s].config.max_execution_time_ms
               THEN [hist EXCEPT !.over[s] = @ + 1] ELSE hist
    /\ UNCHANGED <<task_count, next_task_id, scheduler_mutex, ttask, ext>>
    /\ last' = NoCall
    /\ UNCHANGED <<is_initialized, env, snap, regs>>

\* The task function fails inside task->config.function(task->config.param):
\* task_function_t returns void and the call is not guarded, so the only
\* failure there is is a fault (an abort, an illegal access) in the thread,
\* and a fault in any FreeRTOS task ends in the panic handler.
task_function_faults(s) ==
    /\ CanStep(s)
    /\ thr[s].pc = "exec"
    /\ crashed' = TRUE
    /\ last' = NoCall
    /\ UNCHANGED <<tasks, task_count, next_task_id, scheduler_mutex, scheduler_stats,
                   thr, ttask, ext, is_initialized, env, snap, regs, clock, hist>>

\* ------------------------------------- update_task_stats, step by step
\* update_task_stats runs in the task's thread without the mutex.  Here the
\* steps of one call are separate: the statements on the task's own
\* statistics one by one, and the loads and stores of the statements on the
\* shared scheduler_stats one by one, so that other threads and the getters
\* interleave with them.  The configurations of the step-by-step
\* specifications leave max_execution_time_ms at 0 and the passage of time
\* is not followed there, so the budget test and the sleep that follow
\* update_task_stats change nothing.

\* Durations (ms) of a task function in the step-by-step specifications.
StatDurations == {1, 3}

\* The task function returns and execution_time = end_time - start_time
task_wrapper_returned(s, d) ==
    /\ CanStep(s)
    /\ thr[s].pc = "exec"
    /\ thr' = [thr EXCEPT ![s].pc = "task_count"]
    /\ regs' = [regs EXCEPT ![s] = [execution_time |-> d, word |-> 0]]
    /\ last' = NoCall
    /\ UNCHANGED <<tasks, task_count, next_task_id, scheduler_mutex, scheduler_stats,
                   ttask, ext, crashed, is_initialized, env, snap, clock, hist>>

\* task->stats.execution_count++
update_task_count(s) ==
    /\ CanStep(s)
    /\ thr[s].pc = "task_count"
    /\ tasks' = [tasks EXCEPT ![s].stats.execution_count = U32(@ + 1)]
    /\ thr' = [thr EXCEPT ![s].pc = "task_total"]
    /\ last' = NoCall
    /\ UNCHANGED <<task_count, next_task_id, scheduler_mutex, scheduler_stats,
                   ttask, ext, crashed, is_initialized, env, snap, regs, clock, hist>>

\* task->stats.total_execution_time_ms += execution_time
update_task_total(s) ==
    /\ CanStep(s)
    /\ thr[s].pc = "task_total"
    /\ tasks' = [tasks EXCEPT ![s].stats.total_execution_time_ms =
                                   U32(@ + regs[s].execution_time)]
    /\ thr' = [thr EXCEPT ![s].pc = "task_avg"]
    /\ last' = NoCall
    /\ UNCHANGED <<task_count, next_task_id, scheduler_mutex, scheduler_stats,
                   ttask, ext, crashed, is_initialized, env, snap, regs, clock, hist>>

\* The average, maximum and minimum of the task's own statistics
update_task_avg(s) ==
    /\ CanStep(s)
    /\ thr[s].pc = "task_avg"
    /\ LET st == tasks[s].stats
           d == regs[s].execution_time
       IN tasks' = [tasks EXCEPT ![s].stats =
                [st EXCEPT
                   !.avg_execution_time_ms =
                       IF st.execution_count > 0
                       THEN st.total_execution_time_ms \div st.execution_count ELSE @,
                   !.max_execution_time_ms = IF d > @ THEN d ELSE @,
                   !.min_execution_time_ms = IF d < @ THEN d ELSE @]]
    /\ thr' = [thr EXCEPT ![s].pc = "sched_count"]
    /\ last' = NoCall
    /\ UNCHANGED <<task_count, next_task_id, scheduler_mutex, scheduler_stats,
                   ttask, ext, crashed, is_initialized, env, snap, regs, clock, hist>>

\* A load of the statement the thread is at on scheduler_stats:
\* total_executions (for ++), total_execution_time_ms (for +=), or both
\* operands of the average, divided in registers.
update_scheduler_load(s) ==
    /\ CanStep(s)
    /\ thr[s].pc \in {"sched_count", "sched_total", "sched_avg"}
    /\ regs' = [regs EXCEPT ![s].word =
                   CASE thr[s].pc = "sched_count" -> scheduler_stats.total_executions
                     [] thr[s].pc = "sched_total" -> scheduler_stats.total_execution_time_ms
                     [] OTHER -> IF scheduler_stats.total_executions > 0
                                 THEN scheduler_stats.total_execution_time_ms
                                         \div scheduler_stats.total_executions
                                 ELSE scheduler_stats.avg_execution_time_ms]
    /\ thr' = [thr EXCEPT ![s].pc =
                   CASE thr[s].pc = "sched_count" -> "sched_count_st"
                     [] thr[s].pc = "sched_total" -> "sched_total_st"
                     [] OTHER -> "sched_avg_st"]
    /\ last' = NoCall
    /\ UNCHANGED <<tasks, task_count, next_task_id, scheduler_mutex, scheduler_stats,
                   ttask, ext, crashed, is_initialized, env, snap, clock, hist>>

\* The store of that statement; after the last one update_task_stats returns
\* and task_wrapper goes on: break for a OneShot task, sleep and loop otherwise.
update_scheduler_store(s) ==
    /\ CanStep(s)
    /\ thr[s].pc \in {"sched_count_st", "sched_total_st", "sched_avg_st"}
    /\ scheduler_stats' =
          CASE thr[s].pc = "sched_count_st" ->
                 [scheduler_stats EXCEPT !.total_executions = U32(regs[s].word + 1)]
            [] thr[s].pc = "sched_total_st" ->
                 [scheduler_stats EXCEPT !.total_execution_time_ms =
                                            U32(regs[s].word + regs[s].execution_time)]
            [] OTHER ->
                 [scheduler_stats EXCEPT !.avg_execution_time_ms = regs[s].word]
    /\ thr' = [thr EXCEPT ![s].pc =
                   CASE thr[s].pc = "sched_count_st" -> "sched_total"
                     [] thr[s].pc = "sched_total_st" -> "sched_avg"
                     [] OTHER -> IF tasks[s].config.type = "ONESHOT" THEN "exit" ELSE "loop"]
    /\ regs' = IF thr[s].pc = "sched_avg_st" THEN [regs EXCEPT ![s] = NoRegs] ELSE regs
    /\ last' = NoCall
    /\ UNCHANGED <<tasks, task_count, next_task_id, scheduler_mutex, ttask, ext,
                   crashed, is_initialized, env, snap, clock, hist>>

\* The completion path of a record, run by `caller` (s: the thread of slot s,
\* 0: the timer service task) on slot s: the completion callback, if one is
\* configured, does `act`; then, if auto is set, the record is deleted by its
\* identity.  died: vTaskDelete removed the caller on the way.
CompletionPath(W, caller, s, auto, act, ub1, ub2) ==
    LET call1 == W.tasks[s].config.callback /\ act = "deleteSelf"
        r1 == IF call1 THEN task_scheduler_delete_task(W, caller, W.tasks[s].id, ub1)
              ELSE [w |-> W, ret |-> "ESP_OK", died |-> FALSE]
        call2 == ~r1.died /\ auto
        r2 == IF call2 THEN task_scheduler_delete_task(r1.w, caller, r1.w.tasks[s].id, ub2)
              ELSE r1
    IN [w |-> r2.w, died |-> r2.died,
        ok |-> /\ W.tasks[s].config.callback \/ act = "nothing"
               /\ IF call1 THEN UBAllowed(W, find_task_by_id(W.tasks, W.tasks[s].id), ub1)
                  ELSE ub1 = UB_BENIGN
               /\ IF call2 THEN UBAllowed(r1.w, find_task_by_id(r1.w.tasks, r1.w.tasks[s].id), ub2)
                  ELSE ub2 = UB_BENIGN]

\* After the loop: the state becomes COMPLETED, the completion callback runs
\* in this thread, the record is auto-deleted, and the thread ends in
\* vTaskDelete(NULL).
task_wrapper_exit(s, act, ub1, ub2) ==
    /\ CanStep(s)
    /\ thr[s].pc = "exit"
    /\ LET W0 == [World EXCEPT !.tasks[s].stats.current_state = "COMPLETED"]
           r == CompletionPath(W0, s, s, tasks[s].config.auto_delete, act, ub1, ub2)
       IN /\ r.ok
          /\ Commit([r.w EXCEPT !.thr = IF r.died THEN @ ELSE KillThread(@, s)])
          /\ ttask' = MarkStale(r.w.tasks)
    /\ hist' = IF tasks[s].config.callback
               THEN [hist EXCEPT !.callbacks[s] = @ + 1] ELSE hist
    /\ UNCHANGED <<next_task_id, ext>>
    /\ last' = NoCall
    /\ UNCHANGED <<is_initialized, env, snap, regs, clock>>

\* ------------------------------------------------- periodic_timer_callback
\* The one-shot timer of slot s expires: the timer service task enters
\* periodic_timer_callback with the slot's address and passes
\* if (task && task->is_active && task->config.function).
timer_fire(s) ==
    /\ Running
    /\ ttask.pc = "idle"
    /\ tasks[s].timer = "ARMED"
    /\ clock.now >= clock.due[s]
    /\ hist.execs < env.execs
    /\ tasks' = [tasks EXCEPT ![s].timer = "STOPPED"]
    /\ clock' = IF tasks[s].config.delay_ms > 0
                THEN [clock EXCEPT !.held[s] = "fired"] ELSE clock
    /\ ttask' = IF tasks[s].is_active /\ tasks[s].config.function
                THEN [pc |-> "call", slot |-> s, stale |-> FALSE]
                ELSE TimerIdle
    /\ UNCHANGED <<task_count, next_task_id, scheduler_mutex, scheduler_stats,
                   thr, ext, crashed, hist>>
    /\ last' = NoCall
    /\ UNCHANGED <<is_initialized, env, snap, regs>>

\* Time passes (1 ms): esp_timer dispatches a due timer before later time is
\* observed, so the clock waits for the timers that are due; of the code of a
\* thread only the task function takes time, so the clock also waits for the
\* threads that are ready to run outside it.
Tick ==
    /\ Running
    /\ clock.now < MaxTime
    /\ ttask.pc = "idle"
    /\ \A s \in Slots : tasks[s].timer = "ARMED" => clock.due[s] > clock.now
    /\ \A s \in Slots : CanStep(s) => thr[s].pc = "exec"
    /\ clock' = [clock EXCEPT !.now = @ + 1]
    /\ last' = NoCall
    /\ UNCHANGED <<tasks, task_count, next_task_id, scheduler_mutex, scheduler_stats,
                   thr, ttask, ext, crashed, is_initialized, env, snap, regs, hist>>

\* task->config.function(task->config.param): the function the slot holds
\* now starts in the timer context
periodic_timer_callback_call ==
    /\ Running
    /\ ttask.pc = "call"
    /\ ttask' = [ttask EXCEPT !.pc = "exec"]
    /\ hist' = [hist EXCEPT !.execs = @ + 1, !.runs[ttask.slot] = @ + 1]
    /\ UNCHANGED <<tasks, task_count, next_task_id, scheduler_mutex, scheduler_stats,
                   thr, ext, crashed>>
    /\ last' = NoCall
    /\ UNCHANGED <<is_initialized, env, snap, regs, clock>>

\* The task function returns in the timer context: update_task_stats(task, ...)
periodic_timer_callback_executed(d) ==
    /\ Running
    /\ ttask.pc = "exec"
    /\ tasks' = [tasks EXCEPT ![ttask.slot].stats = update_task_stats(@, d)]
    /\ scheduler_stats' = update_scheduler_stats(scheduler_stats, d)
    /\ ttask' = [ttask EXCEPT !.pc = "cb"]
    /\ hist' = [hist EXCEPT
                  !.stale_write = @ \/ ttask.stale,
                  !.over[ttask.slot] =
                      IF tasks[ttask.slot].config.max_execution_time_ms > 0
                         /\ d > tasks[ttask.slot].config.max_execution_time_ms
                      THEN @ + 1 ELSE @]
    /\ UNCHANGED <<task_count, next_task_id, scheduler_mutex, thr, ext, crashed>>
    /\ last' = NoCall
    /\ UNCHANGED <<is_initialized, env, snap, regs, clock>>

\* The completion callback, if configured, runs in the timer context; then
\* if (type == TASK_TYPE_DELAYED && auto_delete) task_scheduler_delete_task(id)
periodic_timer_callback_exit(act, ub1, ub2) ==
    /\ Running
    /\ ttask.pc = "cb"
    /\ LET s == ttask.slot
           r == CompletionPath(World, 0, s,
                               tasks[s].config.type = "DELAYED" /\ tasks[s].config.auto_delete,
                               act, ub1, ub2)
       IN /\ r.ok
          /\ Commit(r.w)
          /\ ttask' = TimerIdle
    /\ hist' = IF tasks[ttask.slot].config.callback
               THEN [hist EXCEPT !.callbacks[ttask.slot] = @ + 1] ELSE hist
    /\ UNCHANGED <<next_task_id, ext>>
    /\ last' = NoCall
    /\ UNCHANGED <<is_initialized, env, snap, regs, clock>>

Next ==
    \/ \E c \in AllConfigs, sp \in {"ok", "fail"} : task_scheduler_create_task(c, sp)
    \/ \E id \in IdSpace, ub \in UBOutcomes : DeleteTask(id, ub)
    \/ \E id \in IdSpace, ub \in UBOutcomes : SuspendTask(id, ub)
    \/ \E id \in IdSpace, ub \in UBOutcomes : ResumeTask(id, ub)
    \/ ResumeTaskReturn
    \/ \E ubf \in [Slots -> UBOutcomes] : StopAllTasks(ubf)
    \/ \E s \in Slots : task_wrapper_start(s)
    \/ \E s \in Slots, cond \in BOOLEAN : task_wrapper_loop(s, cond)
    \/ \E s \in Slots, d \in Durations : task_wrapper_executed(s, d)
    \/ \E s \in Slots, act \in CallbackActs, ub1 \in UBOutcomes, ub2 \in UBOutcomes :
          task_wrapper_exit(s, act, ub1, ub2)
    \/ \E s \in Slots : timer_fire(s)
    \/ periodic_timer_callback_call
    \/ \E d \in Durations : periodic_timer_callback_executed(d)
    \/ \E act \in CallbackActs, ub1 \in UBOutcomes, ub2 \in UBOutcomes :
          periodic_timer_callback_exit(act, ub1, ub2)

Spec == Init /\ [][Next]_vars

\* Creates beyond the capacity of the table: one more create than there are
\* slots, with a thread-backed and a timer-backed configuration.
InitCap ==
    /\ InitState
    /\ env = [configs |-> {OneShotKeep, DelayedAuto},
              creates |-> MaxTasks + 1, execs |-> 1, callers |-> 1,
              timed |-> FALSE, tick_ms |-> 1, asserts |-> FALSE]

SpecCap == InitCap /\ [][Next]_vars

\* Long create/delete sequences: enough creates for next_task_id to wrap.
InitWrap ==
    /\ InitState
    /\ env = [configs |-> {PeriodicCfg}, creates |-> 2^IdBits, execs |-> 1,
              callers |-> 1,
              timed |-> FALSE, tick_ms |-> 1, asserts |-> FALSE]

NextWrap ==
    \/ \E c \in AllConfigs, sp \in {"ok", "fail"} : task_scheduler_create_task(c, sp)
    \/ \E id \in IdSpace, ub \in UBOutcomes : DeleteTask(id, ub)
    \/ \E ubf \in [Slots -> UBOutcomes] : StopAllTasks(ubf)
    \/ \E s \in Slots : task_wrapper_start(s)
    \/ \E s \in Slots, cond \in BOOLEAN : task_wrapper_loop(s, cond)
    \/ \E s \in Slots, d \in Durations : task_wrapper_executed(s, d)

SpecWrap == InitWrap /\ [][NextWrap]_vars

\* Two callers outside the scheduler's tasks and every facade function, on
\* thread-backed tasks: a call can find the mutex held by the other caller's
\* resume or by a task that deleted itself.
InitLock ==
    /\ InitState
    /\ env = [configs |-> {OneShotAuto, PeriodicCfg}, creates |-> 1,
              execs |-> 1, callers |-> 2,
              timed |-> FALSE, tick_ms |-> 1, asserts |-> FALSE]

NextLock ==
    \/ \E c \in AllConfigs, sp \in {"ok", "fail"} : task_scheduler_create_task(c, sp)
    \/ \E id \in IdSpace, ub \in UBOutcomes : DeleteTask(id, ub)
    \/ \E id \in IdSpace, ub \in UBOutcomes : SuspendTask(id, ub)
    \/ \E id \in IdSpace, ub \in UBOutcomes : ResumeTask(id, ub)
    \/ ResumeTaskReturn
    \/ \E id \in IdSpace : GetTaskStats(id)
    \/ GetSchedulerStats
    \/ \E ubf \in [Slots -> UBOutcomes] : StopAllTasks(ubf)
    \/ \E s \in Slots : task_wrapper_start(s)
    \/ \E s \in Slots, cond \in BOOLEAN : task_wrapper_loop(s, cond)
    \/ \E s \in Slots, d \in Durations : task_wrapper_executed(s, d)
    \/ \E s \in Slots, act \in CallbackActs, ub1 \in UBOutcomes, ub2 \in UBOutcomes :
          task_wrapper_exit(s, act, ub1, ub2)

SpecLock == InitLock /\ [][NextLock]_vars

\* The same with a caller asking whether an identity exists.
NextExists ==
    \/ NextLock
    \/ \E id \in IdSpace : task_scheduler_task_exists(id)

SpecExists == InitLock /\ [][NextExists]_vars

\* Two callers each create a task from the CREATE_ONESHOT_TASK configuration
\* while the tasks created so far run; any of the calls may be the first.
InitTwo ==
    /\ InitState
    /\ env = [configs |-> {OneShotAuto}, creates |-> MaxCreates,
              execs |-> MaxExecs, callers |-> 2,
              timed |-> FALSE, tick_ms |-> 1, asserts |-> FALSE]

NextTwo ==
    \/ \E c \in AllConfigs, sp \in {"ok", "fail"} : task_scheduler_create_task(c, sp)
    \/ \E id \in IdSpace : GetTaskStats(id)
    \/ \E s \in Slots : task_wrapper_start(s)
    \/ \E s \in Slots, cond \in BOOLEAN : task_wrapper_loop(s, cond)
    \/ \E s \in Slots, d \in Durations : task_wrapper_executed(s, d)
    \/ \E s \in Slots, act \in CallbackActs, ub1 \in UBOutcomes, ub2 \in UBOutcomes :
          task_wrapper_exit(s, act, ub1, ub2)

SpecTwo == InitTwo /\ [][NextTwo]_vars

\* Conditional tasks, with and without a predicate, next to a Delayed task
\* whose slot they may inherit.
InitCond ==
    /\ InitState
    /\ env = [configs |-> {ConditionalCfg, ConditionalNoPred, DelayedKeep},
              creates |-> MaxCreates, execs |-> MaxExecs, callers |-> 1,
              timed |-> FALSE, tick_ms |-> 1, asserts |-> FALSE]

NextCond ==
    \/ \E c \in AllConfigs, sp \in {"ok", "fail"} : task_scheduler_create_task(c, sp)
    \/ \E id \in IdSpace, ub \in UBOutcomes : DeleteTask(id, ub)
    \/ \E s \in Slots : task_wrapper_start(s)
    \/ \E s \in Slots, cond \in BOOLEAN : task_wrapper_loop(s, cond)
    \/ \E s \in Slots, d \in Durations : task_wrapper_executed(s, d)
    \/ \E s \in Slots : timer_fire(s)
    \/ periodic_timer_callback_call
    \/ \E d \in Durations : periodic_timer_callback_executed(d)
    \/ \E act \in CallbackActs, ub1 \in UBOutcomes, ub2 \in UBOutcomes :
          periodic_timer_callback_exit(act, ub1, ub2)

SpecCond == InitCond /\ [][NextCond]_vars

\* Periodic tasks running at the same time, update_task_stats taken step by
\* step.
InitStats ==
    /\ InitState
    /\ env = [configs |-> {PeriodicCfg}, creates |-> MaxCreates,
              execs |-> MaxExecs, callers |-> 1,
              timed |-> FALSE, tick_ms |-> 1, asserts |-> FALSE]

NextStats ==
    \/ \E c \in AllConfigs, sp \in {"ok", "fail"} : task_scheduler_create_task(c, sp)
    \/ \E s \in Slots : task_wrapper_start(s)
    \/ \E s \in Slots, cond \in BOOLEAN : task_wrapper_loop(s, cond)
    \/ \E s \in Slots, d \in StatDurations : task_wrapper_returned(s, d)
    \/ \E s \in Slots : update_task_count(s)
    \/ \E s \in Slots : update_task_total(s)
    \/ \E s \in Slots : update_task_avg(s)
    \/ \E s \in Slots : update_scheduler_load(s)
    \/ \E s \in Slots : update_scheduler_store(s)

SpecStats == InitStats /\ [][NextStats]_vars

\* The same with a caller reading the statistics through the two getters.
NextSnap ==
    \/ NextStats
    \/ \E id \in IdSpace : GetTaskStats(id)
    \/ GetSchedulerStats

SpecSnap == InitStats /\ [][NextSnap]_vars

\* OneShot and Delayed tasks with a completion callback under every facade
\* call.
InitNotify ==
    /\ InitState
    /\ env = [configs |-> NotifyConfigs, creates |-> MaxCreates, execs |-> MaxExecs,
              callers |-> 1,
              timed |-> FALSE, tick_ms |-> 1, asserts |-> FALSE]

SpecNotify == InitNotify /\ [][Next]_vars

\* The scheduler is shut down and initialised again while thread-backed
\* tasks run.
InitLife ==
    /\ InitState
    /\ env = [configs |-> {OneShotAuto, PeriodicCfg}, creates |-> MaxCreates,
              execs |-> 1, callers |-> 1,
              timed |-> FALSE, tick_ms |-> 1, asserts |-> FALSE]

NextLife ==
    \/ \E mem \in {"ok", "fail"} : task_scheduler_init(mem)
    \/ \E ubf \in [Slots -> UBOutcomes] : task_scheduler_deinit(ubf)
    \/ \E c \in AllConfigs, sp \in {"ok", "fail"} : task_scheduler_create_task(c, sp)
    \/ \E id \in IdSpace, ub \in UBOutcomes : DeleteTask(id, ub)
    \/ \E id \in IdSpace, ub \in UBOutcomes : SuspendTask(id, ub)
    \/ \E id \in IdSpace, ub \in UBOutcomes : ResumeTask(id, ub)
    \/ ResumeTaskReturn
    \/ \E ubf \in [Slots -> UBOutcomes] : StopAllTasks(ubf)
    \/ \E s \in Slots : task_wrapper_start(s)
    \/ \E s \in Slots, cond \in BOOLEAN : task_wrapper_loop(s, cond)
    \/ \E s \in Slots, d \in Durations : task_wrapper_executed(s, d)
    \/ \E s \in Slots, act \in CallbackActs, ub1 \in UBOutcomes, ub2 \in UBOutcomes :
          task_wrapper_exit(s, act, ub1, ub2)

SpecLife == InitLife /\ [][NextLife]_vars

\* A Delayed task whose delay takes time, suspended and resumed while the
\* clock runs.
InitDelay ==
    /\ InitState
    /\ env = [configs |-> {DelayedLater},
              creates |-> MaxCreates, execs |-> MaxExecs, callers |-> 1,
              timed |-> FALSE, tick_ms |-> 1, asserts |-> FALSE]

NextDelay ==
    \/ \E c \in AllConfigs, sp \in {"ok", "fail"} : task_scheduler_create_task(c, sp)
    \/ \E id \in IdSpace, ub \in UBOutcomes : DeleteTask(id, ub)
    \/ \E id \in IdSpace, ub \in UBOutcomes : SuspendTask(id, ub)
    \/ \E id \in IdSpace, ub \in UBOutcomes : ResumeTask(id, ub)
    \/ ResumeTaskReturn
    \/ Tick
    \/ \E s \in Slots : timer_fire(s)
    \/ periodic_timer_callback_call
    \/ \E d \in Durations : periodic_timer_callback_executed(d)
    \/ \E act \in CallbackActs, ub1 \in UBOutcomes, ub2 \in UBOutcomes :
          periodic_timer_callback_exit(act, ub1, ub2)

SpecDelay == InitDelay /\ [][NextDelay]_vars

\* Tasks with and without a budget whose executions take less and more than
\* the budget; no task is deleted by a caller.
InitBudget ==
    /\ InitState
    /\ env = [configs |-> BudgetConfigs \cup {PeriodicCfg, DelayedKeep},
              creates |-> MaxCreates, execs |-> MaxExecs, callers |-> 1,
              timed |-> FALSE, tick_ms |-> 1, asserts |-> FALSE]

NextBudget ==
    \/ \E c \in AllConfigs, sp \in {"ok", "fail"} : task_scheduler_create_task(c, sp)
    \/ \E s \in Slots : task_wrapper_start(s)
    \/ \E s \in Slots, cond \in BOOLEAN : task_wrapper_loop(s, cond)
    \/ \E s \in Slots, d \in StatDurations : task_wrapper_executed(s, d)
    \/ \E s \in Slots, act \in CallbackActs, ub1 \in UBOutcomes, ub2 \in UBOutcomes :
          task_wrapper_exit(s, act, ub1, ub2)
    \/ \E s \in Slots : timer_fire(s)
    \/ periodic_timer_callback_call
    \/ \E d \in StatDurations : periodic_timer_callback_executed(d)
    \/ \E act \in CallbackActs, ub1 \in UBOutcomes, ub2 \in UBOutcomes :
          periodic_timer_callback_exit(act, ub1, ub2)

SpecBudget == InitBudget /\ [][NextBudget]_vars

\* Task functions that fail, next to ones that return.
InitFault ==
    /\ InitState
    /\ env = [configs |-> {OneShotKeep, PeriodicCfg},
              creates |-> MaxCreates, execs |-> MaxExecs, callers |-> 1,
              timed |-> FALSE, tick_ms |-> 1, asserts |-> FALSE]

NextFault ==
    \/ \E c \in AllConfigs, sp \in {"ok", "fail"} : task_scheduler_create_task(c, sp)
    \/ \E s \in Slots : task_wrapper_start(s)
    \/ \E s \in Slots, cond \in BOOLEAN : task_wrapper_loop(s, cond)
    \/ \E s \in Slots, d \in Durations : task_wrapper_executed(s, d)
    \/ \E s \in Slots : task_function_faults(s)
    \/ \E s \in Slots, act \in CallbackActs, ub1 \in UBOutcomes, ub2 \in UBOutcomes :
          task_wrapper_exit(s, act, ub1, ub2)

SpecFault == InitFault /\ [][NextFault]_vars

\* Periodic tasks followed in time, on builds with either tick period, with
\* and without configASSERT; the task function takes any time.
InitPeriod ==
    /\ InitState
    /\ \E t \in TickPeriods, a \in BOOLEAN :
          env = [configs |-> PeriodicConfigs, creates |-> 1,
                 execs |-> MaxExecs + 1, callers |-> 1,
                 timed |-> TRUE, tick_ms |-> t, asserts |-> a]

NextPeriod ==
    \/ \E c \in AllConfigs, sp \in {"ok", "fail"} : task_scheduler_create_task(c, sp)
    \/ \E s \in Slots : task_wrapper_start(s)
    \/ \E s \in Slots, cond \in BOOLEAN : task_wrapper_loop(s, cond)
    \/ \E s \in Slots, d \in 0..MaxTime : task_wrapper_executed(s, d)
    \/ Tick

SpecPeriod == InitPeriod /\ [][NextPeriod]_vars

\* The same, with callers that suspend and resume the tasks while time passes.
NextLate ==
    \/ NextPeriod
    \/ \E id \in IdSpace, ub \in UBOutcomes : SuspendTask(id, ub)
    \/ \E id \in IdSpace, ub \in UBOutcomes : ResumeTask(id, ub)
    \/ ResumeTaskReturn

SpecLate == InitPeriod /\ [][NextLate]_vars

\* Creates with invalid configurations next to a valid one, on thread-backed
\* tasks.
InitCfg ==
    /\ InitState
    /\ env = [configs |-> InvalidConfigs \cup {PeriodicCfg},
              creates |-> MaxCreates, execs |-> MaxExecs, callers |-> 1,
              timed |-> FALSE, tick_ms |-> 1, asserts |-> FALSE]

SpecCfg == InitCfg /\ [][NextWrap]_vars

\* ------------------------------------------------------------ properties
Full == \A s \in Slots : tasks[s].is_active

\* What a completed removal of the record in slot s leaves behind.
Removed(s) ==
    /\ ~tasks'[s].is_active
    /\ tasks'[s].stats.current_state = "COMPLETED"
    /\ find_task_by_id(tasks', tasks[s].id) = 0
    /\ task_count' = task_count - 1
    /\ find_free_task_slot(tasks') # 0
    /\ scheduler_mutex' = "free"

\* The record of slot s is the one its identity finds and the lock is free.
Deletable(s) ==
    /\ tasks[s].is_active
    /\ find_task_by_id(tasks, tasks[s].id) = s
    /\ scheduler_mutex = "free"

\* C1: when the completion callback of a task without auto-remove, running in
\* the task's own thread, calls delete on the task's own identity, the lock is
\* free again afterwards, the record is Completed and removed, and the
\* active-task count is one lower.
C1_SelfDeleteFromCallback ==
    [][\A s \in Slots :
          (/\ Deletable(s)
           /\ tasks[s].config.callback
           /\ ~tasks[s].config.auto_delete
           /\ \E ub1 \in UBOutcomes, ub2 \in UBOutcomes :
                 task_wrapper_exit(s, "deleteSelf", ub1, ub2))
          => Removed(s)]_vars

\* C2: when a OneShot or Delayed task with auto-remove has finished its single
\* execution, its completion path removes the record: the identity is no
\* longer findable, the count is one lower, the slot is free for the next
\* create and the lock is free.
C2_AutoRemoveAfterCompletion ==
    [][/\ \A s \in Slots :
            (/\ Deletable(s)
             /\ tasks[s].config.type = "ONESHOT"
             /\ tasks[s].config.auto_delete
             /\ \E act \in CallbackActs, ub1 \in UBOutcomes, ub2 \in UBOutcomes :
                   task_wrapper_exit(s, act, ub1, ub2))
            => Removed(s)
       /\ (/\ ttask.pc = "cb"
           /\ ~ttask.stale
           /\ Deletable(ttask.slot)
           /\ tasks[ttask.slot].config.type = "DELAYED"
           /\ tasks[ttask.slot].config.auto_delete
           /\ \E act \in CallbackActs, ub1 \in UBOutcomes, ub2 \in UBOutcomes :
                 periodic_timer_callback_exit(act, ub1, ub2))
          => Removed(ttask.slot)]_vars

\* C3: the identities of the active records are pairwise distinct and none of
\* them is the invalid identity 0.
C3_ActiveIdsUniqueNonZero ==
    \A s \in Slots :
        tasks[s].is_active =>
            /\ tasks[s].id # INVALID_TASK_ID
            /\ \A t \in Slots : (t # s /\ tasks[t].is_active) => tasks[t].id # tasks[s].id

\* C4: a create issued when every slot is active returns the invalid identity
\* and changes neither the table, the active-task count, the identity counter,
\* the scheduler-wide counters, the lock nor any execution unit.
C4_CreateAtCapacityHasNoEffect ==
    [][(last'.op = "create" /\ Full)
          => /\ last'.ret = "INVALID_TASK_ID"
             /\ UNCHANGED <<tasks, task_count, next_task_id, scheduler_stats,
                            scheduler_mutex, thr, ttask, hist>>]_vars

\* A create has just been rejected with the lock free and the table full.
C4_RejectedAtCapacity ==
    /\ last.op = "create"
    /\ last.ret = "INVALID_TASK_ID"
    /\ Full
    /\ task_count = MaxTasks
    /\ scheduler_mutex = "free"

\* The execution units a record has: its thread while it lives, its timer
\* while the timer object exists.
LiveUnits(s) ==
    (IF thr[s].pc # "none" THEN 1 ELSE 0)
    + (IF tasks[s].timer \in {"ARMED", "STOPPED"} THEN 1 ELSE 0)

\* C5: every active record has exactly one live execution unit (a thread or a
\* timer) and every record that is not active has none.
C5_OneUnitPerActiveRecord ==
    \A s \in Slots : LiveUnits(s) = (IF tasks[s].is_active THEN 1 ELSE 0)

\* C6: when delete, called from outside the task, returns success, the record
\* it deleted is Completed and no longer findable, the count is one lower, the
\* slot is free, and the task's execution unit has ceased running: its thread
\* is gone and the timer service is not inside its callback.
C6_DeleteStopsTheUnit ==
    [][(last'.op = "delete" /\ last'.ret = "ESP_OK")
          => \E s \in Slots :
                /\ tasks[s].is_active
                /\ Removed(s)
                /\ thr'[s].pc = "none"
                /\ tasks'[s].timer = "NULL"
                /\ ~(ttask'.pc # "idle" /\ ttask'.slot = s)]_vars

\* C7: no execution that belongs to a deleted task writes statistics into its
\* former slot after the slot has been released or given to a new task.
C7_NoStaleWrite == ~hist.stale_write

\* C8: the execution count of a OneShot task is 0 or 1, and its function is
\* not invoked a second time.
C8_OneShotRunsAtMostOnce ==
    \A s \in Slots :
        (tasks[s].is_active /\ tasks[s].config.type = "ONESHOT")
            => tasks[s].stats.execution_count <= 1 /\ hist.runs[s] <= 1

\* C9: the function of a Delayed task is executed at most once over the task's
\* lifetime, whatever suspend and resume calls are made on it.
C9_DelayedRunsAtMostOnce ==
    \A s \in Slots :
        (tasks[s].is_active /\ tasks[s].config.type = "DELAYED") => hist.runs[s] <= 1

\* C10: when stopAll returns success no record is active, the active-task
\* counts are 0, and every execution unit has been stopped: no thread lives,
\* no timer exists and the timer service is not inside a callback.
C10_StopAllStopsEverything ==
    [][(last'.op = "stopAll" /\ last'.ret = "ESP_OK")
          => /\ \A s \in Slots : ~tasks'[s].is_active /\ thr'[s].pc = "none"
                                 /\ tasks'[s].timer \notin {"ARMED", "STOPPED"}
             /\ task_count' = 0
             /\ scheduler_stats'.active_tasks = 0
             /\ ttask'.pc = "idle"]_vars

\* No active record carries the identity.
NotActiveId(id) == \A s \in Slots : ~(tasks[s].is_active /\ tasks[s].id = id)

\* C11: delete on an identity that no active record carries (never issued, or
\* already deleted) changes nothing: the table, the active-task count, the
\* scheduler statistics, the lock and the execution units stay as they were,
\* so a second delete of the same identity does not decrement the count again.
\* With the lock obtainable the call returns ESP_ERR_NOT_FOUND for every
\* identity other than the invalid one.
C11_DeleteAbsentHasNoEffect ==
    [][\A id \in IdSpace :
          (NotActiveId(id) /\ \E ub \in UBOutcomes : DeleteTask(id, ub))
          => /\ UNCHANGED <<tasks, task_count, scheduler_stats, next_task_id,
                            scheduler_mutex, thr, ttask, hist>>
             /\ last'.op = "delete"
             /\ last'.ret = IF id = INVALID_TASK_ID THEN "ESP_ERR_INVALID_ARG"
                            ELSE IF scheduler_mutex # "free" THEN "ESP_ERR_TIMEOUT"
                            ELSE "ESP_ERR_NOT_FOUND"]_vars

\* A delete has just returned ESP_ERR_NOT_FOUND for a table that holds a
\* deleted record: created once, Completed, its slot released, count back to 0.
C11_SecondDeleteRejected ==
    /\ last.op = "delete"
    /\ last.ret = "ESP_ERR_NOT_FOUND"
    /\ scheduler_stats.total_tasks_created = 1
    /\ task_count = 0
    /\ scheduler_stats.active_tasks = 0
    /\ \E s \in Slots : /\ ~tasks[s].is_active
                        /\ tasks[s].id # INVALID_TASK_ID
                        /\ tasks[s].stats.current_state = "COMPLETED"

\* What the interface calls an invalid configuration.
InvalidConfig(c) ==
    \/ ~c.function
    \/ c.type \notin TaskTypes
    \/ (c.type = "PERIODIC" /\ c.period_ms = 0)

\* C12: create with an invalid configuration (no task function, a type outside
\* the four policies, or Periodic with period 0) returns the invalid identity
\* and leaves no partial state: table, counts, identity counter, statistics
\* and execution units are unchanged.
C12_InvalidConfigRejected ==
    [][\A c \in AllConfigs :
          (InvalidConfig(c) /\ \E sp \in {"ok", "fail"} : task_scheduler_create_task(c, sp))
          => /\ last'.ret = "INVALID_TASK_ID"
             /\ UNCHANGED <<tasks, task_count, next_task_id, scheduler_stats,
                            scheduler_mutex, thr, ttask, hist>>]_vars

\* C13: when xTaskCreate or the timer calls fail inside create, create returns
\* the invalid identity and retains nothing of the attempt: the same slots are
\* active as before, every identity finds what it found before, no thread and
\* no timer has been added, and the active-task count and the scheduler
\* counters (total created among them) are unchanged.
C13_SpawnFailureRolledBack ==
    [][(\E c \in AllConfigs : task_scheduler_create_task(c, "fail"))
          => /\ last'.ret = "INVALID_TASK_ID"
             /\ \A s \in Slots : tasks'[s].is_active = tasks[s].is_active
             /\ \A id \in IdSpace : find_task_by_id(tasks', id) = find_task_by_id(tasks, id)
             /\ \A s \in Slots : tasks'[s].is_active => tasks'[s] = tasks[s]
             /\ \A s \in Slots : ~tasks'[s].is_active
                                    => tasks'[s].timer \notin {"ARMED", "STOPPED"}
             /\ UNCHANGED <<thr, ttask, task_count, scheduler_stats, scheduler_mutex>>]_vars

\* A create has just failed at the spawn: it got past the free-slot check,
\* consumed identity 1 and wrote it into a slot that is not active.
C13_SpawnJustFailed ==
    /\ last.op = "create"
    /\ last.ret = "INVALID_TASK_ID"
    /\ hist.creates = 1
    /\ scheduler_stats.total_tasks_created = 0
    /\ task_count = 0
    /\ \E s \in Slots : tasks[s].id = 1 /\ ~tasks[s].is_active

LockHeld == scheduler_mutex # "free"

\* A facade call with valid arguments is entered in this step.
FacadeCallEntered ==
    \/ \E c \in Configs, sp \in {"ok", "fail"} : task_scheduler_create_task(c, sp)
    \/ \E id \in IdSpace \ {INVALID_TASK_ID}, ub \in UBOutcomes :
          \/ DeleteTask(id, ub)
          \/ SuspendTask(id, ub)
          \/ ResumeTask(id, ub)
    \/ \E id \in IdSpace \ {INVALID_TASK_ID} : GetTaskStats(id)
    \/ GetSchedulerStats
    \/ \E ubf \in [Slots -> UBOutcomes] : StopAllTasks(ubf)

\* Every facade function can run to its return from this state.
EveryFacadeCallReturns ==
    /\ \A c \in env.configs : ENABLED task_scheduler_create_task(c, "ok")
    /\ \A id \in IdSpace \ {INVALID_TASK_ID} :
          /\ ENABLED DeleteTask(id, UB_BENIGN)
          /\ ENABLED SuspendTask(id, UB_BENIGN)
          /\ ENABLED ResumeTask(id, UB_BENIGN)
          /\ ENABLED GetTaskStats(id)
    /\ ENABLED GetSchedulerStats
    /\ ENABLED StopAllTasks([s \in Slots |-> UB_BENIGN])

\* C14: a facade call (create, delete, suspend, resume, getStats,
\* getSchedulerStats, stopAll) that finds the mutex held does not block: it
\* returns, with the timeout failure (ESP_ERR_TIMEOUT; the invalid identity for
\* create), and it has changed nothing: table, counts, identity counter,
\* statistics, lock, execution units and the last snapshot are as before.
C14_LockTimeoutMutatesNothing ==
    /\ []((LockHeld /\ CallerReady) => EveryFacadeCallReturns)
    /\ [][(LockHeld /\ FacadeCallEntered)
             => /\ last'.ret = IF last'.op = "create" THEN "INVALID_TASK_ID"
                               ELSE "ESP_ERR_TIMEOUT"
                /\ UNCHANGED <<tasks, task_count, next_task_id, scheduler_stats,
                               scheduler_mutex, thr, ttask, ext, crashed, snap,
                               hist>>]_vars

\* A call has just timed out on the mutex while the other caller is inside
\* resume, between vTaskResume and the release.
C14_TimedOutUnderContention ==
    /\ last.ret = "ESP_ERR_TIMEOUT"
    /\ scheduler_mutex = "ext"
    /\ ext.pc = "resume"

\* C15: while free slots exist, each of two creates with the same OneShot
\* configuration succeeds, whatever the tasks already created have done in
\* between; the new record is active in a slot of its own under a non-zero
\* identity no other active record carries; and each task's function is
\* invoked at most once, exactly once by the time its thread has ended.
C15_ConcurrentOneShotCreates ==
    /\ [](\A s \in Slots :
             (tasks[s].id # INVALID_TASK_ID /\ tasks[s].config.type = "ONESHOT")
                => /\ hist.runs[s] <= 1
                   /\ (tasks[s].handle /\ thr[s].pc = "none") => hist.runs[s] = 1)
    /\ [][\A c \in env.configs :
             (/\ c.type = "ONESHOT"
              /\ ~Full
              /\ task_scheduler_create_task(c, "ok"))
             => /\ last'.ret = "ESP_OK"
                /\ \E s \in Slots :
                      /\ ~tasks[s].is_active
                      /\ tasks'[s].is_active
                      /\ tasks'[s].id # INVALID_TASK_ID
                      /\ \A t \in Slots \ {s} :
                            tasks'[t].is_active => tasks'[t].id # tasks'[s].id]_vars

\* C16: the function of an active Conditional task is invoked only by a pass
\* of its thread on which a predicate is configured and returned true; a pass
\* on which the predicate returned false, or with no predicate configured,
\* does not execute; and every pass on which a configured predicate returned
\* true does execute.
C16_ConditionalFollowsPredicate ==
    [][\A s \in Slots :
          (tasks[s].is_active /\ tasks[s].config.type = "CONDITIONAL")
          => /\ hist'.runs[s] > hist.runs[s]
                  => tasks[s].config.condition /\ task_wrapper_loop(s, TRUE)
             /\ task_wrapper_loop(s, FALSE)
                  => hist'.runs[s] = hist.runs[s] /\ thr'[s].pc = "loop"
             /\ task_wrapper_loop(s, TRUE)
                  => (thr'[s].pc = "exec") = tasks[s].config.condition]_vars

\* No thread is inside update_task_stats.
NoUpdateInProgress ==
    \A s \in Slots : thr[s].pc \in {"none", "start", "loop", "exec", "exit"}

\* avg == total / count (integer division) for a count above 0
AvgConsistent(count, total, avg) == count > 0 => avg = total \div count

\* C17: whenever no statistics update is in progress, every task that has
\* executed has avg_execution_time_ms = total_execution_time_ms divided by
\* execution_count (integer division), and the scheduler-wide average, total
\* time and total executions stand in the same relation.
C17_AverageIsTotalOverCount ==
    NoUpdateInProgress =>
        /\ \A s \in Slots :
              tasks[s].is_active =>
                  AvgConsistent(tasks[s].stats.execution_count,
                                tasks[s].stats.total_execution_time_ms,
                                tasks[s].stats.avg_execution_time_ms)
        /\ AvgConsistent(scheduler_stats.total_executions,
                         scheduler_stats.total_execution_time_ms,
                         scheduler_stats.avg_execution_time_ms)

DurMin == CHOOSE d \in StatDurations : \A e \in StatDurations : d <= e
DurMax == CHOOSE d \in StatDurations : \A e \in StatDurations : d >= e

\* Statistics as they stand between two complete updates: the total is the
\* sum of `count` durations and the average is total / count.
BetweenUpdates(count, total, avg) ==
    /\ count * DurMin <= total
    /\ total <= count * DurMax
    /\ AvgConsistent(count, total, avg)
    /\ count = 0 => avg = 0

\* C18: every copy handed out by getStats(id) or getSchedulerStats() shows
\* statistics as they stood between two complete updates: a count with the
\* total of exactly that many executions and, for a count above 0, the average
\* total / count.
C18_SnapshotsAreConsistent ==
    /\ snap.kind = "task" =>
          BetweenUpdates(snap.task.execution_count,
                         snap.task.total_execution_time_ms,
                         snap.task.avg_execution_time_ms)
    /\ snap.kind = "scheduler" =>
          BetweenUpdates(snap.scheduler.total_executions,
                         snap.scheduler.total_execution_time_ms,
                         snap.scheduler.avg_execution_time_ms)

\* C19: when suspend returns success the record it found is still active under
\* its identity, its state is Suspended and its timer, if it has one, is
\* stopped and still exists; and while a record's state is Suspended and no
\* resume of it is under way, its function is not invoked.
C19_SuspendHaltsDispatch ==
    [][/\ \A id \in IdSpace, ub \in UBOutcomes :
             (SuspendTask(id, ub) /\ last'.ret = "ESP_OK")
             => LET s == find_task_by_id(tasks, id) IN
                /\ s # 0
                /\ tasks'[s].is_active
                /\ tasks'[s].id = id
                /\ tasks'[s].stats.current_state = "SUSPENDED"
                /\ tasks[s].timer # "NULL" => tasks'[s].timer = "STOPPED"
       /\ \A s \in Slots :
             (/\ tasks[s].is_active
              /\ tasks[s].stats.current_state = "SUSPENDED"
              /\ ~(ext.pc = "resume" /\ ext.slot = s))
             => hist'.runs[s] <= hist.runs[s]]_vars

\* C20: a resume that re-arms the timer of a Delayed task makes it due the
\* full delay after the instant of the resume; the timer of a task that was
\* suspended before it fired and resumed since expires at that instant; and
\* the function of an active Delayed task that was suspended before its timer
\* fired and resumed since is not invoked before that timer has expired.
C20_ResumeRearmsFullDelay ==
    [][/\ ResumeTaskReturn
          => LET s == ext.slot IN
             (tasks[s].timer = "STOPPED" /\ tasks[s].config.type = "DELAYED")
             => /\ tasks'[s].timer = "ARMED"
                /\ clock'.due[s] = clock.now + tasks[s].config.delay_ms
       /\ \A s \in Slots :
             (timer_fire(s) /\ clock.held[s] = "resumed")
             => clock.now = clock.due[s]
       /\ periodic_timer_callback_call
          => LET s == ttask.slot IN
             (tasks[s].is_active /\ tasks[s].config.type = "DELAYED")
             => clock.held[s] # "resumed"]_vars

\* C21: suspend and resume on an identity that no active record carries
\* change nothing: the table, the counters, the statistics, the lock, the
\* execution units and the timers stay as they were.  With the lock
\* obtainable the call returns ESP_ERR_NOT_FOUND for every identity other
\* than the invalid one.
C21_SuspendResumeAbsentHasNoEffect ==
    [][\A id \in IdSpace :
          (/\ NotActiveId(id)
           /\ \E ub \in UBOutcomes : SuspendTask(id, ub) \/ ResumeTask(id, ub))
          => /\ UNCHANGED <<tasks, task_count, scheduler_stats, next_task_id,
                            scheduler_mutex, thr, ttask, ext, clock, hist>>
             /\ last'.op \in {"suspend", "resume"}
             /\ last'.ret = IF id = INVALID_TASK_ID THEN "ESP_ERR_INVALID_ARG"
                            ELSE IF scheduler_mutex # "free" THEN "ESP_ERR_TIMEOUT"
                            ELSE "ESP_ERR_NOT_FOUND"]_vars

\* A resume has just returned ESP_ERR_NOT_FOUND while the table holds a
\* deleted record next to a running thread.
C21_ResumeOfDeletedRejected ==
    /\ last.op = "resume"
    /\ last.ret = "ESP_ERR_NOT_FOUND"
    /\ \E s \in Slots : /\ ~tasks[s].is_active
                        /\ tasks[s].id # INVALID_TASK_ID
                        /\ tasks[s].stats.current_state = "COMPLETED"
    /\ \E s \in Slots : tasks[s].is_active /\ thr[s].pc = "loop"

\* The wake time (ms) of the thread of slot s: last_wakeup_time in ticks
WakeMs(c, s) == c.wake[s] * env.tick_ms

\* C22: for a Periodic task with a positive period, the sleep that ends a
\* pass makes the next wake time the previous wake time plus the period,
\* whatever time the task function took; and while no execution has taken
\* as long as the period, every execution after the first begins at the wake
\* time.
C22_PeriodicWakesAreDriftFree ==
    [][\A s \in Slots :
          LET cfg == tasks[s].config IN
          (tasks[s].is_active /\ cfg.type = "PERIODIC" /\ cfg.period_ms > 0)
          => /\ (\E d \in 0..MaxTime : task_wrapper_executed(s, d))
                => /\ ~crashed'
                   /\ WakeMs(clock', s) = WakeMs(clock, s) + cfg.period_ms
             /\ (/\ \E cond \in BOOLEAN : task_wrapper_loop(s, cond)
                 /\ thr'[s].pc = "exec"
                 /\ hist.runs[s] >= 1
                 /\ tasks[s].stats.max_execution_time_ms < cfg.period_ms)
                => clock.now = WakeMs(clock, s)]_vars

\* C23: when the function of a task fails, the scheduler goes on, the task's
\* error_count goes up by one, the other records are left as they were, and
\* the thread goes on to the end of its pass: a OneShot task to its
\* completion, a recurring one to its next pass.
C23_CallbackFailureIsCaptured ==
    [][\A s \in Slots :
          task_function_faults(s)
          => /\ ~crashed'
             /\ tasks'[s].stats.error_count = tasks[s].stats.error_count + 1
             /\ \A o \in Slots \ {s} : tasks'[o] = tasks[o] /\ thr'[o] = thr[o]
             /\ thr'[s].pc = IF tasks[s].config.type = "ONESHOT" THEN "exit"
                             ELSE "loop"]_vars

\* The lifecycle graph: the changes of a record's state the interface allows
\* (any state may end in Completed when the task is deleted).
LifecycleEdges ==
    {<<"CREATED", "READY">>, <<"READY", "RUNNING">>, <<"READY", "SUSPENDED">>,
     <<"RUNNING", "SUSPENDED">>, <<"SUSPENDED", "RUNNING">>,
     <<"SUSPENDED", "READY">>, <<"RUNNING", "READY">>, <<"RUNNING", "ERROR">>}
    \cup {<<st, "COMPLETED">> : st \in TaskStates}

\* C24: a task is Ready when a successful create returns, and every change of
\* the state of an active record is an edge of the lifecycle graph; Created
\* is never followed directly by Running.
C24_StateFollowsLifecycle ==
    [][/\ \A c \in AllConfigs :
             (task_scheduler_create_task(c, "ok") /\ last'.ret = "ESP_OK")
             => LET s == find_free_task_slot(tasks) IN
                tasks'[s].stats.current_state = "READY"
       /\ \A s \in Slots :
             (/\ tasks[s].is_active
              /\ tasks'[s].id = tasks[s].id
              /\ tasks'[s].stats.current_state # tasks[s].stats.current_state)
             => <<tasks[s].stats.current_state, tasks'[s].stats.current_state>>
                   \in LifecycleEdges]_vars

\* C25: while the function of an active task is executing, in its thread
\* (not held by a suspend) or in the timer context (dispatched for this
\* record), the record's current state is Running.
C25_RunningWhileExecuting ==
    /\ \A s \in Slots :
          (tasks[s].is_active /\ thr[s].pc = "exec" /\ ~thr[s].suspended)
          => tasks[s].stats.current_state = "RUNNING"
    /\ (ttask.pc = "exec" /\ ~ttask.stale /\ tasks[ttask.slot].is_active)
       => tasks[ttask.slot].stats.current_state = "RUNNING"

\* C26: when the thread of a OneShot task leaves task_wrapper, when the
\* timer callback dispatched for a Delayed task returns, and when a delete
\* of a task succeeds, the task's record is in state Completed.
C26_CompletedAfterLastExecution ==
    [][/\ \A s \in Slots :
             (/\ tasks[s].is_active /\ tasks[s].config.type = "ONESHOT"
              /\ \E act \in CallbackActs, ub1 \in UBOutcomes, ub2 \in UBOutcomes :
                    task_wrapper_exit(s, act, ub1, ub2))
             => tasks'[s].stats.current_state = "COMPLETED"
       /\ (/\ ttask.pc = "cb" /\ ~ttask.stale
           /\ tasks[ttask.slot].config.type = "DELAYED"
           /\ \E act \in CallbackActs, ub1 \in UBOutcomes, ub2 \in UBOutcomes :
                 periodic_timer_callback_exit(act, ub1, ub2))
          => tasks'[ttask.slot].stats.current_state = "COMPLETED"
       /\ \A id \in IdSpace :
             (/\ \E ub \in UBOutcomes : DeleteTask(id, ub)
              /\ last'.ret = "ESP_OK")
             => tasks'[find_task_by_id(tasks, id)].stats.current_state = "COMPLETED"]_vars

\* C27: the deadline-miss counter of every active record equals the number
\* of its finished executions whose measured time was above its positive
\* budget (none, for a record without a budget).
C27_MissedDeadlinesCountOverruns ==
    /\ \A s \in Slots :
          tasks[s].is_active => tasks[s].stats.missed_deadlines = hist.over[s]

\* The period of the config is a whole, positive number of ticks.
WholeTicks(cfg) == cfg.period_ms > 0 /\ cfg.period_ms % env.tick_ms = 0

\* C28: for a Periodic task whose period is a whole number of ticks, a pass
\* that finds its next wake time (the last wake time plus the period) already
\* passed counts a missed deadline, and an execution that begins behind
\* the last wake time does not begin at the instant the one before it began:
\* after the execution that is late, the executions for the other periods
\* that were missed are not made up in a burst.
C28_LateWakeRunsOnceAndCounts ==
    [][\A s \in Slots :
          LET cfg == tasks[s].config IN
          (tasks[s].is_active /\ cfg.type = "PERIODIC" /\ WholeTicks(cfg))
          => /\ (/\ \E d \in 0..MaxTime : task_wrapper_executed(s, d)
                 /\ WakeMs(clock, s) + cfg.period_ms < clock.now)
                => tasks'[s].stats.missed_deadlines
                      = tasks[s].stats.missed_deadlines + 1
             /\ (/\ \E cond \in BOOLEAN : task_wrapper_loop(s, cond)
                 /\ thr'[s].pc = "exec"
                 /\ hist.runs[s] >= 1
                 /\ WakeMs(clock, s) < clock.now)
                => clock.now > clock.start[s]]_vars


\* The sum of one statistics field over the records of slots 1..n.
RECURSIVE SumOfTasks(_, _)
SumOfTasks(field, n) ==
    IF n = 0 THEN 0 ELSE tasks[n].stats[field] + SumOfTasks(field, n - 1)

\* C29: whenever no statistics update is in progress, the scheduler-wide
\* total_executions equals the sum of the per-task execution counts and the
\* scheduler-wide total execution time equals the sum of the per-task totals
\* (no record is deleted, so these sums cover every completed execution).
C29_NoStatisticsUpdateIsLost ==
    NoUpdateInProgress =>
        /\ scheduler_stats.total_executions = SumOfTasks("execution_count", MaxTasks)
        /\ scheduler_stats.total_execution_time_ms
              = SumOfTasks("total_execution_time_ms", MaxTasks)


\* C30: when the completion callback of a OneShot or Delayed record is called,
\* it has not been called for that record before, the record is still active
\* (not yet removed) and its function has been invoked exactly once and has
\* returned (execution count 1).
C30_CompletionCallbackOnce ==
    [][\A s \in Slots :
          (/\ tasks[s].config.type \in {"ONESHOT", "DELAYED"}
           /\ tasks[s].config.callback
           /\ hist'.callbacks[s] > hist.callbacks[s])
          => /\ hist.callbacks[s] = 0
             /\ tasks[s].is_active
             /\ hist.runs[s] = 1
             /\ tasks[s].stats.execution_count = 1]_vars


\* The identity issued after n: n + 1 modulo 2^IdBits, skipping 0.
IdAfter(n) == IF n = 2^IdBits - 1 THEN 1 ELSE n + 1

\* C31: the identity counter is never 0; a create that succeeds returns the
\* counter's value and moves the counter to the next identity (plus one,
\* wrapping modulo 2^IdBits past 0); a create that fails leaves the counter
\* where it was.
C31_IdentityConsumedOnlyBySuccess ==
    [][/\ next_task_id # INVALID_TASK_ID
       /\ \A c \in AllConfigs, sp \in {"ok", "fail"} :
             task_scheduler_create_task(c, sp)
             => IF last'.ret = "ESP_OK"
                THEN /\ \E s \in Slots : tasks'[s].is_active /\ tasks'[s].id = next_task_id
                     /\ next_task_id' = IdAfter(next_task_id)
                ELSE next_task_id' = next_task_id]_vars


\* C32: whenever no facade call of an outside caller is in progress, the lock
\* is free.
C32_LockFreeBetweenCalls ==
    ext.pc = "idle" => scheduler_mutex = "free"


\* The slots whose record is active.
ActiveSlots == {s \in Slots : tasks[s].is_active}

\* C33: whenever no facade call is inside its critical section (no caller
\* holds the lock), task_count equals the number of active slots and
\* scheduler_stats.active_tasks and is at most MAX_TASKS, and
\* total_tasks_created equals the number of creates that returned an identity
\* since init and is at least the active count.
C33_CountsAreConsistent ==
    scheduler_mutex # "ext" =>
        /\ task_count = Cardinality(ActiveSlots)
        /\ task_count = scheduler_stats.active_tasks
        /\ task_count <= MaxTasks
        /\ scheduler_stats.total_tasks_created = hist.created
        /\ scheduler_stats.total_tasks_created >= task_count


\* The call on identity id gets the lock and finds a record with a thread
\* handle, which it hands to vTaskDelete / vTaskSuspend / vTaskResume.
PassesHandle(id) ==
    /\ id # INVALID_TASK_ID
    /\ scheduler_mutex = "free"
    /\ find_task_by_id(tasks, id) # 0
    /\ tasks[find_task_by_id(tasks, id)].handle

\* C34: whenever delete, suspend, resume or stopAll hands the thread handle of
\* a record to the thread primitive, the thread the handle names has not
\* ended.
C34_NoStaleHandleIsUsed ==
    [][/\ \A id \in IdSpace :
             (/\ PassesHandle(id)
              /\ \E ub \in UBOutcomes :
                    DeleteTask(id, ub) \/ SuspendTask(id, ub) \/ ResumeTask(id, ub))
             => ~Dangling(World, find_task_by_id(tasks, id))
       /\ (/\ scheduler_mutex = "free"
           /\ \E ubf \in [Slots -> UBOutcomes] : StopAllTasks(ubf))
          => \A s \in Slots : tasks[s].is_active => ~Dangling(World, s)]_vars


\* C35: once the state of a record is COMPLETED it stays COMPLETED until
\* create gives the slot to a new record.
C35_CompletedIsTerminal ==
    [][\A s \in Slots :
          (/\ tasks[s].stats.current_state = "COMPLETED"
           /\ ~\E c \in AllConfigs, sp \in {"ok", "fail"} :
                  task_scheduler_create_task(c, sp) /\ tasks'[s].id # tasks[s].id)
          => tasks'[s].stats.current_state = "COMPLETED"]_vars


\* A facade call other than init or deinit has returned in the latest step.
FacadeOps == {"create", "delete", "suspend", "resume", "getStats",
              "getSchedulerStats", "stopAll"}

\* What each facade function returns when the scheduler is not initialised.
UninitializedReturn(op) ==
    CASE op = "create" -> "INVALID_TASK_ID"
      [] op = "stopAll" -> "ESP_ERR_INVALID_STATE"
      [] OTHER -> "ESP_ERR_INVALID_ARG"

\* C36: when deinit returns, no thread or timer of the scheduler is live and
\* no record is active; and a facade call made while the scheduler is not
\* initialised fails with the error of its function and changes nothing.
C36_DeinitStopsEverything ==
    [][/\ (last'.op = "deinit" /\ last'.ret = "ESP_OK")
          => /\ \A s \in Slots : /\ ~tasks'[s].is_active
                                 /\ thr'[s].pc = "none"
                                 /\ tasks'[s].timer \notin {"ARMED", "STOPPED"}
             /\ ttask'.pc = "idle"
       /\ (~is_initialized /\ last'.op \in FacadeOps)
          => /\ last'.ret = UninitializedReturn(last'.op)
             /\ UNCHANGED <<is_initialized, tasks, task_count, next_task_id,
                            scheduler_mutex, scheduler_stats, thr, ttask, hist>>]_vars


\* C37: init called while the scheduler is initialised returns ESP_OK and
\* leaves the table, the identity counter, the counts, the lock, the threads,
\* the timer service and the statistics (start_time included) as they were.
C37_InitWhenInitializedHasNoEffect ==
    [][(is_initialized /\ last'.op = "init")
          => /\ last'.ret = "ESP_OK"
             /\ UNCHANGED <<is_initialized, tasks, task_count, next_task_id,
                            scheduler_mutex, scheduler_stats, thr, ttask, ext,
                            crashed, clock, hist>>]_vars

\* init has just returned ESP_OK on a scheduler that holds an active record
\* with a live thread.
C37_InitOnRunningScheduler ==
    /\ last.op = "init"
    /\ last.ret = "ESP_OK"
    /\ is_initialized
    /\ \E s \in Slots : tasks[s].is_active /\ thr[s].pc # "none"


\* C38: task_exists(id) returns true exactly when an active record carries
\* the identity at the time of the call.
C38_ExistsIffActive ==
    [][\A id \in IdSpace :
          task_scheduler_task_exists(id)
          => ((last'.ret = "true") <=> ~NotActiveId(id))]_vars


\* The smaller and the larger of two numbers.
Smaller(a, b) == IF a < b THEN a ELSE b
Larger(a, b) == IF a > b THEN a ELSE b

\* C39: for every active record that has executed, min <= avg <= max and
\* missed_deadlines <= execution_count; for one that has not, execution count,
\* total, average, maximum and missed_deadlines are 0; and an execution that
\* took d ms leaves d as minimum and maximum if it was the first, and
\* otherwise the smaller of the old minimum and d and the larger of the old
\* maximum and d.
C39_StatisticsAreOrdered ==
    /\ [](\A s \in Slots :
             LET st == tasks[s].stats IN
             tasks[s].is_active =>
                IF st.execution_count > 0
                THEN /\ st.min_execution_time_ms <= st.avg_execution_time_ms
                     /\ st.avg_execution_time_ms <= st.max_execution_time_ms
                     /\ st.missed_deadlines <= st.execution_count
                ELSE /\ st.total_execution_time_ms = 0
                     /\ st.avg_execution_time_ms = 0
                     /\ st.max_execution_time_ms = 0
                     /\ st.missed_deadlines = 0)
    /\ [][\A s \in Slots, d \in StatDurations :
             (/\ tasks[s].is_active
              /\ \/ task_wrapper_executed(s, d)
                 \/ ttask.slot = s /\ periodic_timer_callback_executed(d))
             => LET old == tasks[s].stats
                    new == tasks'[s].stats
                IN /\ new.min_execution_time_ms =
                         IF old.execution_count = 0 THEN d
                         ELSE Smaller(old.min_execution_time_ms, d)
                   /\ new.max_execution_time_ms =
                         IF old.execution_count = 0 THEN d
                         ELSE Larger(old.max_execution_time_ms, d)]_vars

\* A task has executed twice, for 1 ms and for 3 ms, the second time over its
\* budget.
C39_TwoExecutionsRecorded ==
    \E s \in Slots :
        /\ tasks[s].is_active
        /\ tasks[s].stats.execution_count = 2
        /\ tasks[s].stats.min_execution_time_ms = 1
        /\ tasks[s].stats.avg_execution_time_ms = 2
        /\ tasks[s].stats.max_execution_time_ms = 3
        /\ tasks[s].stats.missed_deadlines = 1


====
